---------------------------- MODULE Spec2Model ----------------------------
(***************************************************************************)
(* Model of the worklog MCP service (plugins/worklog/mcp):                 *)
(*   - config.py    backend selection and PostgreSQL parameter resolution  *)
(*   - database.py  the two backends and the process-wide holder           *)
(*                  (get_db / close_db)                                    *)
(*   - server.py    whitelist validators, wildcard escaper, query_table,   *)
(*                  search_knowledge, recall_context, recall_topic,        *)
(*                  store_memory                                           *)
(*                                                                         *)
(* Text is modelled as a sequence of atoms.  An atom is a TLA+ string: a   *)
(* single character, or a word that the code never looks inside.  The      *)
(* string operations of the code (strip, split, lower, replace, join) are  *)
(* defined on these sequences.                                             *)
(***************************************************************************)
EXTENDS Integers, Sequences, FiniteSets, TLC

VARIABLES
    env,        \* os.environ, fixed for the life of the process
    _db,        \* database.py:309  the process-wide slot (0 is None)
    _db_lock,   \* database.py:310  asyncio.Lock: 0 is free, else the holder
    inst,       \* every backend instance constructed so far, by identity
    pc,         \* where each task is suspended
    res,        \* what each task's last get_db()/close_db() call gave
    nOps,       \* calls started so far
    vIn,        \* the validator call under way: function, text, table
    vOut,       \* what the validator returned
    memories,   \* the rows of table memories, in rowid order
    agent_chat, \* the rows of table agent_chat, in rowid order
    relationships, \* the rows of table relationships, in rowid order
    tag_taxonomy,  \* the rows of table tag_taxonomy, in id order
    topic_index,   \* the rows of table topic_index, in id order
    topic_entries, \* the rows of table topic_entries, in id order
    last_insert_rowid, \* sqlite3: rowid of the connection's last INSERT
    task,       \* the tool call each task is suspended in
    call,       \* the arguments of the last tool call
    issued,     \* the statements the last tool call gave to the backend
    out         \* what the last tool call returned

holderVars == <<env, _db, _db_lock, inst, pc, res, nOps>>

valVars == <<vIn, vOut>>

\* the tables that the tools of one run leave alone, and the suspended calls
curationVars == <<tag_taxonomy, topic_index, topic_entries>>

restVars == <<agent_chat, relationships, task, curationVars>>

toolVars == <<memories, call, issued, out, restVars, last_insert_rowid>>

vars == <<holderVars, valVars, toolVars>>

----------------------------------------------------------------------------
(* Bounds *)

NProcs == 2

MaxOps == 4

\* longest column specification and order-by text, in atoms
MaxColLen == 4

MaxOrdLen == 5

\* longest stored content and search term, in characters
MaxTextLen == 2

\* most rows a query run stores before it queries
MaxRows == 1

\* most relationships added in a run of add_relationship
MaxEdges == 2

\* most messages sent in a run of the chat tools
MaxMessages == 1

\* most reads of one memory in a run of the memory tools
MaxReads == 2

\* most tags added in a run of the taxonomy tools
MaxTags == 2

\* most topics created and most memberships added in a run of the topic tools
MaxTopics == 2

MaxMembers == 2

Procs == 1..NProcs

----------------------------------------------------------------------------
(* str.lower() on the atoms the model uses. *)

Lower(a) ==
    CASE a = "PostgreSQL" -> "postgresql"
      [] a = "TRUE" -> "true"
      [] a = "Key" -> "key"
      [] a = "ID" -> "id"
      [] a = "ASC" -> "asc"
      [] a = "DESC" -> "desc"
      [] a = "LIKE" -> "like"
      [] a = "ILIKE" -> "ilike"
      [] a = "A" -> "a"
      [] a = "X" -> "x"
      [] a = "K1" -> "k1"
      [] OTHER -> a

(* str.upper() on the atoms the model uses. *)
Upper(a) ==
    CASE a = "id" -> "ID"
      [] a = "Key" -> "KEY"
      [] a = "key" -> "KEY"
      [] a = "evil" -> "EVIL"
      [] a = "asc" -> "ASC"
      [] a = "desc" -> "DESC"
      [] a = "like" -> "LIKE"
      [] a = "Like" -> "LIKE"
      [] a = "ilike" -> "ILIKE"
      [] OTHER -> a

----------------------------------------------------------------------------
(* Text: the str methods the code uses, on sequences of atoms. *)

\* every text of at most n atoms over the alphabet A
Texts(A, n) == UNION {[1..k -> A] : k \in 0..n}

IsSpace(a) == a = " "

RECURSIVE LStrip(_)
LStrip(s) == IF s # <<>> /\ IsSpace(Head(s)) THEN LStrip(Tail(s)) ELSE s

RECURSIVE RStrip(_)
RStrip(s) ==
    IF s # <<>> /\ IsSpace(s[Len(s)]) THEN RStrip(SubSeq(s, 1, Len(s) - 1)) ELSE s

\* str.strip()
Strip(s) == RStrip(LStrip(s))

\* the first position of s that satisfies nothing but `a`, or Len(s) + 1
IndexOf(s, a) ==
    IF \E i \in 1..Len(s) : s[i] = a
    THEN CHOOSE i \in 1..Len(s) : s[i] = a /\ \A j \in 1..(i - 1) : s[j] # a
    ELSE Len(s) + 1

\* str.split(sep): one piece more than there are separators
RECURSIVE SplitOn(_, _)
SplitOn(s, sep) ==
    LET i == IndexOf(s, sep)
    IN  IF i > Len(s) THEN <<s>>
        ELSE <<SubSeq(s, 1, i - 1)>> \o SplitOn(SubSeq(s, i + 1, Len(s)), sep)

\* str.split(): pieces between runs of whitespace, none of them empty
RECURSIVE SplitWS(_)
SplitWS(s) ==
    LET t == LStrip(s)
        i == IndexOf(t, " ")
    IN  IF t = <<>> THEN <<>>
        ELSE <<SubSeq(t, 1, i - 1)>> \o SplitWS(SubSeq(t, i, Len(t)))

\* str.lower() and str.upper()
LowerText(s) == [i \in 1..Len(s) |-> Lower(s[i])]

UpperText(s) == [i \in 1..Len(s) |-> Upper(s[i])]

\* the Python string a text stands for
RECURSIVE Str(_)
Str(s) == IF s = <<>> THEN "" ELSE Head(s) \o Str(Tail(s))

SetMin(S) == CHOOSE x \in S : \A y \in S : x <= y

SetMax(S) == CHOOSE x \in S : \A y \in S : x >= y

\* the elements of a list
Range(f) == {f[i] : i \in DOMAIN f}

\* sep.join(strings)
RECURSIVE Join(_, _)
Join(ss, sep) ==
    IF ss = <<>> THEN ""
    ELSE IF Len(ss) = 1 THEN ss[1]
    ELSE ss[1] \o sep \o Join(Tail(ss), sep)

----------------------------------------------------------------------------
(* config.py *)

Unset == "<unset>"

GoodUrl == "postgresql://worklog:pw@db:5432/worklog"

BadPortUrl == "postgresql://worklog:pw@db:abc/worklog"

EnvValues(name) ==
    CASE name = "DATABASE_URL" -> {Unset, GoodUrl, BadPortUrl}
      [] name = "WORKLOG_BACKEND" -> {Unset, "sqlite", "postgresql", "PostgreSQL"}
      [] name = "PGHOST" -> {Unset, "db"}
      [] name = "PGPASSWORD" -> {Unset, "pw"}
      [] name = "PGPORT" -> {Unset, "5432", "0", "70000", "abc"}
      [] name = "WORKLOG_ALLOW_FALLBACK" -> {Unset, "1", "TRUE", "yes", "0"}

Envs ==
    [DATABASE_URL : EnvValues("DATABASE_URL"),
     WORKLOG_BACKEND : EnvValues("WORKLOG_BACKEND"),
     PGHOST : EnvValues("PGHOST"),
     PGPASSWORD : EnvValues("PGPASSWORD"),
     PGPORT : EnvValues("PGPORT"),
     WORKLOG_ALLOW_FALLBACK : EnvValues("WORKLOG_ALLOW_FALLBACK")]

\* os.environ.get(name, default)
EnvGet(e, name, default) == IF e[name] = Unset THEN default ELSE e[name]

\* truthiness of os.environ.get(name)
EnvSet(e, name) == e[name] # Unset /\ e[name] # ""

SQLITE == "sqlite"

POSTGRESQL == "postgresql"

get_backend(e) ==
    IF EnvSet(e, "DATABASE_URL") THEN POSTGRESQL
    ELSE LET backend_env == Lower(EnvGet(e, "WORKLOG_BACKEND", ""))
         IN  IF backend_env = "postgresql" THEN POSTGRESQL
             ELSE IF backend_env = "sqlite" THEN SQLITE
             ELSE IF EnvSet(e, "PGHOST") THEN POSTGRESQL
             ELSE SQLITE

\* int(port_str): the strings that are integer literals, and their values
IsIntLiteral(s) == s \in {"5432", "0", "70000"}

IntOf(s) == CASE s = "5432" -> 5432 [] s = "0" -> 0 [] s = "70000" -> 70000

ValueError(msg) == [type |-> "ValueError", msg |-> msg]

\* urlparse(url).port raises ValueError on a port that is no number
_parse_database_url(url) ==
    IF url = BadPortUrl
    THEN [ok |-> FALSE, err |-> ValueError("Port could not be cast to integer value")]
    ELSE [ok |-> TRUE, err |-> ValueError("")]

get_postgresql_params(e) ==
    IF EnvSet(e, "DATABASE_URL") THEN _parse_database_url(e["DATABASE_URL"])
    ELSE IF ~EnvSet(e, "PGHOST")
    THEN [ok |-> FALSE, err |-> ValueError("PostgreSQL selected but not configured.")]
    ELSE IF ~EnvSet(e, "PGPASSWORD")
    THEN [ok |-> FALSE, err |-> ValueError("PostgreSQL password not configured.")]
    ELSE LET port_str == EnvGet(e, "PGPORT", "5432")
         IN  IF ~IsIntLiteral(port_str)
             THEN [ok |-> FALSE, err |-> ValueError("Invalid PGPORT value. Must be a number.")]
             ELSE IF ~(1 <= IntOf(port_str) /\ IntOf(port_str) <= 65535)
             THEN [ok |-> FALSE, err |-> ValueError("Port must be between 1 and 65535")]
             ELSE [ok |-> TRUE, err |-> ValueError("")]

----------------------------------------------------------------------------
(* server.py: the column whitelist and the validators *)

TABLE_COLUMNS(table) ==
    CASE table = "memories" ->
            {"id", "key", "content", "summary", "memory_type",
             "importance", "status", "tags", "source_agent", "system",
             "access_count", "last_accessed", "promoted_at", "created_at"}
      [] table = "knowledge_base" ->
            {"id", "category", "title", "content", "tags",
             "source_agent", "system", "is_protocol", "created_at",
             "updated_at", "source_url"}
      [] table = "entries" ->
            {"id", "timestamp", "agent", "task_type", "title", "details",
             "decision_rationale", "outcome", "tags", "related_files"}
      [] table = "research" ->
            {"id", "source_type", "title", "summary", "key_points",
             "relevance_score", "tags", "status", "created_at"}
      [] table = "agent_chat" ->
            {"id", "from_agent", "to_agent", "message", "context",
             "priority", "status", "parent_id", "response", "created_at",
             "read_at", "resolved_at"}
      [] table = "issues" ->
            {"id", "project", "title", "description", "status", "tags",
             "source_agent", "created_at"}
      [] table = "error_patterns" ->
            {"id", "error_signature", "error_message", "platform",
             "language", "root_cause", "resolution", "prevention_tip",
             "tags", "created_at"}
      [] table = "tag_taxonomy" ->
            {"id", "canonical_tag", "aliases", "category", "description",
             "usage_count", "created_at", "updated_at"}
      [] table = "relationships" ->
            {"id", "source_table", "source_id", "target_table",
             "target_id", "relationship_type", "confidence",
             "bidirectional", "created_by", "created_at"}
      [] table = "topic_index" ->
            {"id", "topic_name", "summary", "full_summary", "key_terms",
             "content_size", "entry_count", "last_curated", "created_at",
             "updated_at"}
      [] table = "topic_entries" ->
            {"id", "topic_id", "entry_table", "entry_id",
             "relevance_score", "added_at"}
      [] table = "duplicate_candidates" ->
            {"id", "entry1_table", "entry1_id", "entry2_table",
             "entry2_id", "similarity_score", "detection_method",
             "status", "reviewed_by", "reviewed_at", "merge_target_id",
             "created_at"}
      [] table = "promotion_history" ->
            {"id", "memory_id", "from_status", "to_status", "reason",
             "score_snapshot", "promoted_by", "created_at"}
      [] table = "curation_history" ->
            {"id", "run_at", "operation", "agent", "stats",
             "duration_seconds", "success", "error_message"}
      [] OTHER -> {}

VALID_TABLES ==
    {"memories", "knowledge_base", "entries", "research", "agent_chat",
     "issues", "error_patterns", "tag_taxonomy", "relationships",
     "topic_index", "topic_entries", "duplicate_candidates",
     "promotion_history", "curation_history"}

\* mutant of InvalidOf: only the first requested column is looked up
InvalidOfFirst(requested, allowed) ==
    IF requested[1] \in allowed THEN <<>> ELSE <<requested[1]>>

\* server.py:137  the requested columns that are not in the whitelist
InvalidOf(requested, allowed) ==
    LET Bad(c) == c \notin allowed IN SelectSeq(requested, Bad)

\* server.py:121-141.  `cols` is the list `requested` that the accepted
\* text joins; `invalid` is the list the message of a rejection shows.
_validate_columns(columns, table) ==
    IF Strip(columns) = <<"*">>
    THEN [done |-> TRUE, valid |-> TRUE, raised |-> FALSE, text |-> "*",
          cols |-> <<"*">>, invalid |-> <<>>]
    ELSE LET allowed == TABLE_COLUMNS(table)
             pieces == SplitOn(columns, ",")
             requested == [i \in 1..Len(pieces) |-> Str(LowerText(Strip(pieces[i])))]
             invalid == InvalidOf(requested, allowed)
         IN  IF invalid # <<>>
             THEN [done |-> TRUE, valid |-> FALSE, raised |-> FALSE,
                   text |-> "Invalid columns", cols |-> <<>>, invalid |-> invalid]
             ELSE [done |-> TRUE, valid |-> TRUE, raised |-> FALSE,
                   text |-> Join(requested, ", "), cols |-> requested,
                   invalid |-> <<>>]

\* mutant of ValidDirection: the direction is not looked at
AnyDirection(direction) == TRUE

\* server.py:165
ValidDirection(direction) == direction \in {"ASC", "DESC"}

\* server.py:144-172.  `cols` is <<column, direction>> of an accepted
\* clause.  parts[0] of an empty list raises IndexError.
_validate_order_by(order_by, table) ==
    IF order_by = <<>>
    THEN [done |-> TRUE, valid |-> TRUE, raised |-> FALSE, text |-> "",
          cols |-> <<>>, invalid |-> <<>>]
    ELSE LET parts == SplitWS(Strip(order_by))
         IN  IF Len(parts) > 2
             THEN [done |-> TRUE, valid |-> FALSE, raised |-> FALSE,
                   text |-> "Invalid order_by format", cols |-> <<>>,
                   invalid |-> <<>>]
             ELSE IF parts = <<>>
             THEN [done |-> TRUE, valid |-> FALSE, raised |-> TRUE,
                   text |-> "IndexError", cols |-> <<>>, invalid |-> <<>>]
             ELSE LET column == Str(LowerText(parts[1]))
                      direction == IF Len(parts) = 2 THEN Str(UpperText(parts[2]))
                                   ELSE "ASC"
                      allowed == TABLE_COLUMNS(table)
                  IN  IF ~ValidDirection(direction)
                      THEN [done |-> TRUE, valid |-> FALSE, raised |-> FALSE,
                            text |-> "Invalid sort direction",
                            cols |-> <<>>, invalid |-> <<direction>>]
                      ELSE IF column \notin allowed
                      THEN [done |-> TRUE, valid |-> FALSE, raised |-> FALSE,
                            text |-> "Invalid order_by column",
                            cols |-> <<>>, invalid |-> <<column>>]
                      ELSE [done |-> TRUE, valid |-> TRUE, raised |-> FALSE,
                            text |-> column \o " " \o direction,
                            cols |-> <<column, direction>>, invalid |-> <<>>]

\* the validators as operations: the call under way is answered
NotCalled ==
    [done |-> FALSE, valid |-> FALSE, raised |-> FALSE, text |-> "",
     cols |-> <<>>, invalid |-> <<>>]

NoCall == [fn |-> "none", text |-> <<>>, table |-> "memories"]

ColAtoms == {"id", "Key", "evil", " ", ",", "*"}

OrdAtoms == {"id", "Key", "evil", "desc", "ASC", " ", ";"}

\* "key" is a column of memories and not of entries; "id" is one of both
ValTables == {"memories", "entries"}

ValidatorCalls ==
    [fn : {"columns"}, text : Texts(ColAtoms, MaxColLen), table : ValTables]
      \cup [fn : {"columns"}, text : {<<"*">>}, table : VALID_TABLES]
      \cup [fn : {"order_by"}, text : Texts(OrdAtoms, MaxOrdLen), table : ValTables]

ValidateColumns ==
    /\ vIn.fn = "columns" /\ ~vOut.done
    /\ vOut' = _validate_columns(vIn.text, vIn.table)
    /\ UNCHANGED vIn

ValidateOrderBy ==
    /\ vIn.fn = "order_by" /\ ~vOut.done
    /\ vOut' = _validate_order_by(vIn.text, vIn.table)
    /\ UNCHANGED vIn

----------------------------------------------------------------------------
(* database.py: the backends.  An instance is a record; `conn` stands for  *)
(* SQLiteBackend._conn and PostgreSQLBackend._pool ("none" is None).       *)

SQLiteBackend ==
    [kind |-> SQLITE, conn |-> "none", schema |-> FALSE, connects |-> 0,
     closed |-> FALSE]

PostgreSQLBackend ==
    [kind |-> POSTGRESQL, conn |-> "none", schema |-> TRUE, connects |-> 0,
     closed |-> FALSE]

\* connect() has run to its end on this instance
Ready(b) == b.conn = "open" /\ b.schema

\* close(): `if self._conn:` guards the teardown, so a backend that holds no
\* connection is left as it is.  Gives the instance after the call and
\* whether the call raised.
BackendClose(b) ==
    IF b.conn # "none"
    THEN [after |-> [b EXCEPT !.conn = "none", !.closed = TRUE], raised |-> FALSE]
    ELSE [after |-> b, raised |-> FALSE]

----------------------------------------------------------------------------
(* database.py: get_db / close_db.  Every `await` and `async with` is a    *)
(* point where the event loop may run another task; the code between two   *)
(* of them is one step.                                                    *)

NoRes ==
    [op |-> "none", kind |-> "none", path |-> "none", val |-> 0,
     ready |-> FALSE, stale |-> FALSE, err |-> ValueError(""), newest |-> 0,
     slot |-> 0, before |-> SQLiteBackend]

\* the result of a get_db() that returns instance i: `ready` and `stale` say
\* whether, at the return, its connect() had finished and whether it had
\* been closed; `newest` is the latest instance constructed by then
Returned(i, path) ==
    [NoRes EXCEPT !.op = "get_db", !.kind = "returned", !.path = path,
                  !.val = i, !.ready = Ready(inst'[i]),
                  !.stale = inst'[i].closed, !.newest = Len(inst')]

\* the result of a call that raised; `slot` is what it leaves in the slot
Raised(op, e) ==
    [NoRes EXCEPT !.op = op, !.kind = "raised", !.err = e,
                  !.newest = Len(inst'), !.slot = _db']

\* the result of a close_db() that found instance `slot` (0: nothing)
\* published, in state `before`, and raised nothing
Closed(slot, before) ==
    [NoRes EXCEPT !.op = "close_db", !.kind = "returned",
                  !.newest = Len(inst'), !.slot = slot, !.before = before]

\* mutant of AllowFallback: the fallback is taken whatever the flag says
AllowFallbackAlways(e) == TRUE

\* database.py:342
AllowFallback(e) ==
    Lower(EnvGet(e, "WORKLOG_ALLOW_FALLBACK", "")) \in {"1", "true", "yes"}

\* database.py:347-351  the error get_db raises when fallback is not allowed
ConfigurationError(e) ==
    ValueError("PostgreSQL configuration error: " \o e.msg
               \o " Set WORKLOG_ALLOW_FALLBACK=1 to allow SQLite fallback, or fix PostgreSQL configuration.")

\* database.py:331-351  what the locked section constructs: the variant, or
\* the error it raises
SelectVariant(e) ==
    IF get_backend(e) = SQLITE THEN [ok |-> TRUE, backend |-> SQLiteBackend, err |-> ValueError("")]
    ELSE LET params == get_postgresql_params(e)
         IN  IF params.ok THEN [ok |-> TRUE, backend |-> PostgreSQLBackend, err |-> ValueError("")]
             ELSE IF AllowFallback(e)
             THEN [ok |-> TRUE, backend |-> SQLiteBackend, err |-> ValueError("")]
             ELSE [ok |-> FALSE, backend |-> SQLiteBackend, err |-> ConfigurationError(params.err)]

\* mutant of DoubleCheck: no second check once the lock is held
DoubleCheckMissing(slot) == FALSE

\* database.py:328  the second check, made under the lock
DoubleCheck(slot) == slot # 0

\* database.py:321-323  fast path: the slot is read without the lock
GetDbFast(p) ==
    /\ pc[p] = "idle" /\ nOps < MaxOps
    /\ _db # 0
    /\ nOps' = nOps + 1
    /\ UNCHANGED <<env, _db, _db_lock, inst, pc>>
    /\ res' = [res EXCEPT ![p] = Returned(_db, "fast")]

\* database.py:322,326  the slot is empty: go for the lock
GetDbMiss(p) ==
    /\ pc[p] = "idle" /\ nOps < MaxOps
    /\ _db = 0
    /\ nOps' = nOps + 1
    /\ pc' = [pc EXCEPT ![p] = "get_lock"]
    /\ res' = [res EXCEPT ![p] = NoRes]
    /\ UNCHANGED <<env, _db, _db_lock, inst>>

\* database.py:326-329  lock taken, the slot is no longer empty
GetDbRecheckHit(p) ==
    /\ pc[p] = "get_lock" /\ _db_lock = 0
    /\ DoubleCheck(_db)
    /\ pc' = [pc EXCEPT ![p] = "idle"]
    /\ UNCHANGED <<env, _db, _db_lock, inst, nOps>>
    /\ res' = [res EXCEPT ![p] = Returned(_db, "recheck")]

\* database.py:326-353  lock taken, slot still empty: construct the variant,
\* publish it in the slot, and enter its connect() up to the first await
GetDbConstruct(p) ==
    /\ pc[p] = "get_lock" /\ _db_lock = 0
    /\ ~DoubleCheck(_db)
    /\ SelectVariant(env).ok
    /\ _db_lock' = p
    /\ inst' = Append(inst, [SelectVariant(env).backend EXCEPT !.connects = 1])
    /\ _db' = Len(inst')
    /\ pc' = [pc EXCEPT ![p] = "connect"]
    /\ UNCHANGED <<env, res, nOps>>

\* database.py:346-351  PostgreSQL is not configured and fallback is not
\* allowed: raise; `async with` releases the lock
GetDbConfigError(p) ==
    /\ pc[p] = "get_lock" /\ _db_lock = 0
    /\ ~DoubleCheck(_db)
    /\ ~SelectVariant(env).ok
    /\ pc' = [pc EXCEPT ![p] = "idle"]
    /\ UNCHANGED <<env, _db, _db_lock, inst, nOps>>
    /\ res' = [res EXCEPT ![p] = Raised("get_db", SelectVariant(env).err)]

\* database.py:92-93  SQLiteBackend.connect: aiosqlite.connect() has returned
ConnectOpened(p) ==
    /\ pc[p] = "connect" /\ inst[_db].kind = SQLITE
    /\ inst' = [inst EXCEPT ![_db].conn = "open"]
    /\ pc' = [pc EXCEPT ![p] = "init_schema"]
    /\ UNCHANGED <<env, _db, _db_lock, res, nOps>>

\* database.py:96-198, 353-355  _init_schema has run; connect() returns, the
\* lock is released and get_db returns the slot
ConnectSchemaDone(p) ==
    /\ pc[p] = "init_schema"
    /\ inst' = [inst EXCEPT ![_db].schema = TRUE]
    /\ _db_lock' = 0
    /\ pc' = [pc EXCEPT ![p] = "idle"]
    /\ UNCHANGED <<env, _db, nOps>>
    /\ res' = [res EXCEPT ![p] = Returned(_db, "init")]

\* database.py:249-259, 353-355  PostgreSQLBackend.connect: create_pool() has
\* returned
ConnectPoolDone(p) ==
    /\ pc[p] = "connect" /\ inst[_db].kind = POSTGRESQL
    /\ inst' = [inst EXCEPT ![_db].conn = "open"]
    /\ _db_lock' = 0
    /\ pc' = [pc EXCEPT ![p] = "idle"]
    /\ UNCHANGED <<env, _db, nOps>>
    /\ res' = [res EXCEPT ![p] = Returned(_db, "init")]

\* database.py:353  connect() raises (the file cannot be opened, the server
\* cannot be reached): the exception leaves get_db, the lock is released
ConnectFail(p) ==
    /\ pc[p] \in {"connect", "init_schema"}
    /\ _db_lock' = 0
    /\ pc' = [pc EXCEPT ![p] = "idle"]
    /\ UNCHANGED <<env, _db, inst, nOps>>
    /\ res' = [res EXCEPT ![p] = Raised("get_db", [type |-> "ConnectError", msg |-> "connect failed"])]

\* database.py:364-365  close_db with nothing in the slot
CloseDbEmpty(p) ==
    /\ pc[p] = "idle" /\ nOps < MaxOps
    /\ _db_lock = 0 /\ _db = 0
    /\ nOps' = nOps + 1
    /\ UNCHANGED <<env, _db, _db_lock, inst, pc>>
    /\ res' = [res EXCEPT ![p] = Closed(0, SQLiteBackend)]

\* database.py:364-367, 200-203  close_db on a backend that holds no
\* connection: close() returns at once, the slot is cleared
CloseDbNoConn(p) ==
    /\ pc[p] = "idle" /\ nOps < MaxOps
    /\ _db_lock = 0 /\ _db # 0 /\ inst[_db].conn = "none"
    /\ nOps' = nOps + 1
    /\ inst' = [inst EXCEPT ![_db] = BackendClose(inst[_db]).after]
    /\ _db' = 0
    /\ UNCHANGED <<env, _db_lock, pc>>
    /\ res' = [res EXCEPT ![p] =
                 IF BackendClose(inst[_db]).raised
                 THEN Raised("close_db", [type |-> "AttributeError", msg |-> "NoneType"])
                 ELSE Closed(_db, inst[_db])]

\* database.py:364-366, 201-202  close_db on a connected backend: the lock is
\* held while the connection's close() is awaited
CloseDbBegin(p) ==
    /\ pc[p] = "idle" /\ nOps < MaxOps
    /\ _db_lock = 0 /\ _db # 0 /\ inst[_db].conn # "none"
    /\ nOps' = nOps + 1
    /\ _db_lock' = p
    /\ pc' = [pc EXCEPT ![p] = "closing"]
    /\ res' = [res EXCEPT ![p] = NoRes]
    /\ UNCHANGED <<env, _db, inst>>

\* mutant of SlotAfterClose: close_db closes the backend and keeps it
\* published
SlotKept(slot) == slot

\* database.py:367  what close_db leaves in the slot after close() has
\* returned
SlotAfterClose(slot) == 0

\* database.py:203, 367  the connection is closed: _conn = None, _db = None,
\* and the lock is released
CloseDbFinish(p) ==
    /\ pc[p] = "closing"
    /\ inst' = [inst EXCEPT ![_db] = BackendClose(inst[_db]).after]
    /\ _db' = SlotAfterClose(_db)
    /\ _db_lock' = 0
    /\ pc' = [pc EXCEPT ![p] = "idle"]
    /\ UNCHANGED <<env, nOps>>
    /\ res' = [res EXCEPT ![p] = Closed(_db, inst[_db])]

\* one step of task p
HolderStep(p) ==
    \/ GetDbFast(p)
    \/ GetDbMiss(p)
    \/ GetDbRecheckHit(p)
    \/ GetDbConstruct(p)
    \/ GetDbConfigError(p)
    \/ ConnectOpened(p)
    \/ ConnectSchemaDone(p)
    \/ ConnectPoolDone(p)
    \/ ConnectFail(p)
    \/ CloseDbEmpty(p)
    \/ CloseDbNoConn(p)
    \/ CloseDbBegin(p)
    \/ CloseDbFinish(p)

\* one step of a task that runs alone: the second check under the lock
\* never finds the slot filled
LoneStep(p) ==
    \/ GetDbFast(p)
    \/ GetDbMiss(p)
    \/ GetDbConstruct(p)
    \/ GetDbConfigError(p)
    \/ ConnectOpened(p)
    \/ ConnectSchemaDone(p)
    \/ ConnectPoolDone(p)
    \/ ConnectFail(p)
    \/ CloseDbEmpty(p)
    \/ CloseDbNoConn(p)
    \/ CloseDbBegin(p)
    \/ CloseDbFinish(p)

----------------------------------------------------------------------------
(* Values.  A str is a sequence of characters; None is a text of its own   *)
(* that no caller can type.                                                *)

None == <<"<None>">>

\* a Python value that is falsy where the code writes `if x`
Falsy(x) == x = None \/ x = <<>>

\* str.replace(a, r)
RECURSIVE Replace(_, _, _)
Replace(s, a, r) ==
    IF s = <<>> THEN <<>>
    ELSE (IF Head(s) = a THEN r ELSE <<Head(s)>>) \o Replace(Tail(s), a, r)

\* server.py:105-118
_escape_search_wildcards(term) ==
    LET t1 == Replace(term, "\\", <<"\\", "\\">>)
        t2 == Replace(t1, "%", <<"\\", "%">>)
        t3 == Replace(t2, "_", <<"\\", "_">>)
    IN  <<"%">> \o t3 \o <<"%">>

----------------------------------------------------------------------------
(* SQL text.  A statement's text is a sequence of fragments, one for each  *)
(* literal piece and each interpolated expression of the f-string that     *)
(* builds it; `role` says which slot of the statement the fragment fills,  *)
(* `n` is the ordinal of a placeholder.                                    *)

Frag(role, text) == [role |-> role, text |-> text, n |-> 0]

Sql(text) == Frag("sql", text)

\* the SQL text as the backend receives it
RECURSIVE SqlText(_)
SqlText(frags) == IF frags = <<>> THEN "" ELSE Head(frags).text \o SqlText(Tail(frags))

\* database.py:222-223, 295-296  placeholder(index)
placeholder(b, index) ==
    IF b.kind = SQLITE THEN [role |-> "placeholder", text |-> "?", n |-> index]
    ELSE [role |-> "placeholder", text |-> "$" \o ToString(index), n |-> index]

\* database.py:228-231, 301-302  ilike(column, placeholder)
ilike(b, column, ph) ==
    IF b.kind = SQLITE
    THEN <<Frag("fn", "LOWER("), Frag("column", column), Sql(") "),
           Frag("op", "LIKE"), Sql(" "), Frag("fn", "LOWER("), ph, Sql(")")>>
    ELSE <<Frag("column", column), Sql(" "), Frag("op", "ILIKE"), Sql(" "), ph>>

Statement(id, frags, args) == [id |-> id, frags |-> frags, args |-> args]

----------------------------------------------------------------------------
(* The database engine: what executing a statement gives.  Rows of table   *)
(* memories are records with one field for each column (database.py:       *)
(* 102-117); agent_chat and relationships have rows of their own, the      *)
(* other tables hold no rows in these runs.                                *)

\* a row as INSERT INTO memories (key, content, summary, memory_type,
\* importance, tags, source_agent, system) leaves it, the other columns at
\* their defaults
MemoryRow(id, key, content, summary, memory_type, importance, tags) ==
    [id |-> id, key |-> key, content |-> content, summary |-> summary,
     memory_type |-> memory_type, importance |-> importance,
     status |-> "staging", tags |-> tags, source_agent |-> None,
     system |-> None, access_count |-> 0, last_accessed |-> None,
     promoted_at |-> None, created_at |-> id]

\* the columns whose cells are numbers in the rows above
NumericColumns ==
    {"id", "importance", "access_count", "created_at", "entry_count"}

TableRows(table) ==
    IF table = "memories" THEN memories
    ELSE IF table = "agent_chat" THEN agent_chat
    ELSE IF table = "relationships" THEN relationships
    ELSE IF table = "tag_taxonomy" THEN tag_taxonomy
    ELSE IF table = "topic_index" THEN topic_index
    ELSE IF table = "topic_entries" THEN topic_entries
    ELSE <<>>

\* database.py:98-198: the tables that _init_schema creates in the file of
\* the embedded store
SchemaTables ==
    {"memories", "knowledge_base", "entries", "research", "agent_chat",
     "error_patterns"}

\* config.py:149-152
TABLES ==
    <<"memories", "knowledge_base", "entries", "research", "agent_chat",
      "tag_taxonomy", "relationships", "topic_index", "topic_entries",
      "duplicate_candidates", "promotion_history", "curation_history",
      "issues", "error_patterns">>

\* the tables of a PostgreSQL database: the server creates none of them
\* (database.py:246-259), the database is provisioned with all of them
Provisioned == {TABLES[i] : i \in 1..Len(TABLES)}

\* the tables a statement can name on the instance
TableExists(b, table) ==
    IF b.kind = SQLITE THEN b.schema /\ table \in SchemaTables
    ELSE table \in Provisioned

\* the code point order of the characters the runs use
CharRank(c) ==
    CASE c = "%" -> 37
      [] c = "A" -> 65
      [] c = "K1" -> 75
      [] c = "X" -> 88
      [] c = "\\" -> 92
      [] c = "_" -> 95
      [] c = "a" -> 97
      [] c = "k1" -> 107
      [] c = "k2" -> 108
      [] c = "x" -> 120
      [] OTHER -> 0

RECURSIVE TextLess(_, _)
TextLess(a, b) ==
    IF b = <<>> THEN FALSE
    ELSE IF a = <<>> THEN TRUE
    ELSE IF Head(a) = Head(b) THEN TextLess(Tail(a), Tail(b))
    ELSE CharRank(Head(a)) < CharRank(Head(b))

NoEscape == "<none>"

\* the LIKE match of text s against pattern p: % is any run, _ any one
\* character, and the character after esc stands for itself.  (A pattern
\* that ends in a lone esc matches nothing.)
RECURSIVE Like(_, _, _)
Like(p, s, esc) ==
    IF p = <<>> THEN s = <<>>
    ELSE IF Head(p) = esc
    THEN /\ Len(p) >= 2 /\ s # <<>> /\ s[1] = p[2]
         /\ Like(SubSeq(p, 3, Len(p)), Tail(s), esc)
    ELSE IF Head(p) = "%"
    THEN \E k \in 0..Len(s) : Like(Tail(p), SubSeq(s, k + 1, Len(s)), esc)
    ELSE IF Head(p) = "_"
    THEN s # <<>> /\ Like(Tail(p), Tail(s), esc)
    ELSE s # <<>> /\ s[1] = Head(p) /\ Like(Tail(p), Tail(s), esc)

\* SQLite: LIKE has no escape character unless the statement has an ESCAPE
\* clause, and folds ASCII case.  PostgreSQL: backslash is the default
\* escape character; LIKE keeps case, ILIKE folds it.
LikeHolds(b, op, pattern, text) ==
    IF b.kind = SQLITE THEN Like(LowerText(pattern), LowerText(text), NoEscape)
    ELSE IF op = "ILIKE" THEN Like(LowerText(pattern), LowerText(text), "\\")
    ELSE Like(pattern, text, "\\")

PlaceholdersOf(frags) == {i \in 1..Len(frags) : frags[i].role = "placeholder"}

\* sqlite3 wants one argument for each `?`; asyncpg wants the arguments to
\* be those of the ordinals $1..$n of the text
BindingFault(b, stmt) ==
    IF b.kind = SQLITE
    THEN Cardinality(PlaceholdersOf(stmt.frags)) # Len(stmt.args)
    ELSE {stmt.frags[i].n : i \in PlaceholdersOf(stmt.frags)} # 1..Len(stmt.args)

\* the argument the placeholder at position i of the text takes
BoundValue(b, stmt, i) ==
    IF b.kind = SQLITE
    THEN stmt.args[Cardinality({j \in PlaceholdersOf(stmt.frags) : j <= i})]
    ELSE stmt.args[stmt.frags[i].n]

\* the comparisons of the WHERE clause: one for each operator of the text,
\* between the column before it and the placeholder after it
ComparisonsOf(frags) == {i \in 1..Len(frags) : frags[i].role = "op"}

ColumnBefore(frags, i) ==
    CHOOSE j \in 1..(i - 1) :
        /\ frags[j].role = "column"
        /\ \A k \in (j + 1)..(i - 1) : frags[k].role # "column"

PlaceholderAfter(frags, i) ==
    CHOOSE j \in (i + 1)..Len(frags) :
        /\ frags[j].role = "placeholder"
        /\ \A k \in (i + 1)..(j - 1) : frags[k].role # "placeholder"

InLower(frags, j) == j > 1 /\ frags[j - 1] = Frag("fn", "LOWER(")

\* one comparison on one row; a NULL cell satisfies none
Holds(b, stmt, i, row) ==
    LET frags == stmt.frags
        c == ColumnBefore(frags, i)
        p == PlaceholderAfter(frags, i)
        op == frags[i].text
        cell0 == row[frags[c].text]
        value0 == BoundValue(b, stmt, p)
        cell == IF InLower(frags, c) THEN LowerText(cell0) ELSE cell0
        value == IF InLower(frags, p) THEN LowerText(value0) ELSE value0
    IN  /\ cell0 # None
        /\ CASE op = "=" -> cell = value
             [] op = "!=" -> cell # value
             [] op = "<" -> TextLess(cell, value)
             [] op = ">" -> TextLess(value, cell)
             [] op = "<=" -> ~TextLess(value, cell)
             [] op = ">=" -> ~TextLess(cell, value)
             [] OTHER -> LikeHolds(b, op, value, cell)

\* the rows of the statement's table that its WHERE clause keeps: those
\* that satisfy one of its comparisons, every row if it has none
Matching(b, stmt, table) ==
    LET Keep(row) ==
            \/ ComparisonsOf(stmt.frags) = {}
            \/ \E i \in ComparisonsOf(stmt.frags) : Holds(b, stmt, i, row)
    IN  SelectSeq(TableRows(table), Keep)

\* ORDER BY <column> <direction>, ...: `keys` lists the positions of the
\* columns in the text, each followed by its direction two fragments on
Ordered(rows, frags, keys) ==
    LET Col(k) == frags[keys[k]].text
        Desc(k) == frags[keys[k] + 2].text = "DESC"
        Less(k, r1, r2) ==
            IF Col(k) \in NumericColumns THEN r1[Col(k)] < r2[Col(k)]
            ELSE TextLess(r1[Col(k)], r2[Col(k)])
        Ahead(k, r1, r2) == IF Desc(k) THEN Less(k, r2, r1) ELSE Less(k, r1, r2)
        Before(r1, r2) ==
            \E k \in 1..Len(keys) :
                /\ Ahead(k, r1, r2)
                /\ \A j \in 1..(k - 1) : r1[Col(j)] = r2[Col(j)]
    IN  SortSeq(rows, Before)

\* LIMIT n OFFSET m
Page(rows, n, m) ==
    SubSeq(rows, m + 1, IF m + n < Len(rows) THEN m + n ELSE Len(rows))

----------------------------------------------------------------------------
(* server.py: the tools.  A tool call is one step: it validates, builds    *)
(* its statements, has the backend of get_db() execute them and returns.   *)
(* get_memory and find_related are split at their awaits, so that the      *)
(* statements of other calls run between theirs.                           *)

\* server.py:100-102  (lengths are counted in atoms here)
MAX_SEARCH_QUERY_LENGTH == 500

MAX_FILTER_VALUE_LENGTH == 1000

MAX_COLUMN_SPEC_LENGTH == 500

\* server.py:260
allowed_ops == {"=", "!=", ">", "<", ">=", "<=", "LIKE", "ILIKE"}

NoOut ==
    [kind |-> "none", error |-> "", rows |-> <<>>, count |-> 0, total |-> 0,
     offset |-> 0, limit |-> 0]

\* a tool's {"error": ...} result
ErrorOut(msg) == [NoOut EXCEPT !.kind = "error", !.error = msg]

\* an exception that leaves the tool
RaisedOut(msg) == [NoOut EXCEPT !.kind = "raised", !.error = msg]

Answer(o, stmts) == [out |-> o, issued |-> stmts]

FragsWith(frags, role) == {i \in 1..Len(frags) : frags[i].role = role}

\* the result columns of a row: all of them for *, else the named ones
Project(row, frags) ==
    LET names == {frags[i].text : i \in FragsWith(frags, "select")}
    IN  IF "*" \in names THEN row ELSE [c \in names |-> row[c]]

\* the positions of the fragments of a role, in text order
RECURSIVE InOrder(_)
InOrder(S) ==
    IF S = {} THEN <<>>
    ELSE LET m == CHOOSE x \in S : \A y \in S : x <= y
         IN  <<m>> \o InOrder(S \ {m})

LimitKeyword == Sql(" LIMIT ")

TableOf(stmt) == stmt.frags[CHOOSE i \in FragsWith(stmt.frags, "table") : TRUE].text

\* the statement fails in the driver: it names a table the database does
\* not have ("no such table"), or its arguments do not fit its placeholders
Faulted(b, stmt) == ~TableExists(b, TableOf(stmt)) \/ BindingFault(b, stmt)

\* fetchall() of a SELECT ... FROM <table> [WHERE ...] [ORDER BY ...]
\* [LIMIT ...] [OFFSET ...]: the rows, or the fault of the binding.  The
\* limit is a number of the text or the argument of the placeholder that
\* follows LIMIT.
fetchall(b, stmt) ==
    LET frags == stmt.frags
        table == frags[CHOOSE i \in FragsWith(frags, "table") : TRUE].text
        kept == Matching(b, stmt, table)
        sorted == Ordered(kept, frags, InOrder(FragsWith(frags, "order")))
        bound == {j \in PlaceholdersOf(frags) : j > 1 /\ frags[j - 1] = LimitKeyword}
        n == IF FragsWith(frags, "limit") # {}
             THEN frags[CHOOSE i \in FragsWith(frags, "limit") : TRUE].n
             ELSE IF bound # {}
             THEN BoundValue(b, stmt, CHOOSE j \in bound : TRUE)
             ELSE Len(sorted)
        m == IF FragsWith(frags, "offset") = {} THEN 0
             ELSE frags[CHOOSE i \in FragsWith(frags, "offset") : TRUE].n
        page == Page(sorted, n, m)
    IN  IF Faulted(b, stmt) THEN [raised |-> TRUE, rows |-> <<>>]
        ELSE [raised |-> FALSE,
              rows |-> [i \in 1..Len(page) |-> Project(page[i], frags)]]

\* fetchone() of SELECT COUNT(*) as total FROM <table> [WHERE ...]
CountOf(b, stmt) ==
    LET frags == stmt.frags
        table == frags[CHOOSE i \in FragsWith(frags, "table") : TRUE].text
    IN  IF Faulted(b, stmt) THEN [raised |-> TRUE, total |-> 0]
        ELSE [raised |-> FALSE, total |-> Len(Matching(b, stmt, table))]

\* the text of `safe_columns`, token by token
ColumnFrags(cols) ==
    LET Piece(i) ==
            IF i % 2 = 1 THEN Frag("select", cols[(i + 1) \div 2]) ELSE Sql(", ")
    IN  [i \in 1..(2 * Len(cols) - 1) |-> Piece(i)]

\* the text of `safe_order_by`: column, blank, direction
OrderFrags(cols) ==
    <<Sql(" ORDER BY "), Frag("order", cols[1]), Sql(" "), Frag("direction", cols[2])>>

Number(role, n) == [role |-> role, text |-> ToString(n), n |-> n]

\* mutant of FilterColumnAllowed: every filter column passes
FilterColumnAny(filter_column, allowed) == TRUE

\* server.py:263
FilterColumnAllowed(filter_column, allowed) ==
    Str(LowerText(filter_column)) \in allowed

\* server.py:235-239
ClampLimit(limit) ==
    IF limit < 0 \/ limit > 100
    THEN (LET lo == IF limit > 1 THEN limit ELSE 1
          IN  IF lo < 100 THEN lo ELSE 100)
    ELSE limit

ClampOffset(offset) == IF offset < 0 THEN 0 ELSE offset

\* server.py:271-293  the two statements of an accepted call
QueryStatements(c, db, safe_columns, safe_order_by, limit, offset) ==
    LET from == <<Sql(" FROM "), Frag("table", c.table)>>
        query0 == <<Sql("SELECT ")>> \o ColumnFrags(safe_columns) \o from
        count0 == <<Sql("SELECT COUNT(*) as total")>> \o from
        filtered == ~Falsy(c.filter_column) /\ c.filter_value # None
        p1 == placeholder(db, 1)
        op == Str(UpperText(c.filter_op))
        col == Str(LowerText(c.filter_column))
        where_clause ==
            IF op = "ILIKE" THEN ilike(db, col, p1)
            ELSE <<Frag("column", col), Sql(" "), Frag("op", op), Sql(" "), p1>>
        where == IF filtered THEN <<Sql(" WHERE ")>> \o where_clause ELSE <<>>
        params == IF filtered THEN <<c.filter_value>> ELSE <<>>
        order == IF safe_order_by # <<>> THEN OrderFrags(safe_order_by) ELSE <<>>
        tail == <<LimitKeyword, Number("limit", limit),
                  Sql(" OFFSET "), Number("offset", offset)>>
    IN  <<Statement("count_query", count0 \o where, params),
          Statement("query", query0 \o where \o order \o tail, params)>>

\* server.py:206-308
query_table(c, db) ==
    LET limit == ClampLimit(c.limit)
        offset == ClampOffset(c.offset)
        vc == _validate_columns(c.columns, c.table)
        vo == _validate_order_by(IF Falsy(c.order_by) THEN <<>> ELSE c.order_by,
                                 c.table)
        allowed == TABLE_COLUMNS(c.table)
        stmts == QueryStatements(c, db, vc.cols, vo.cols, limit, offset)
        total == CountOf(db, stmts[1])
        rows == fetchall(db, stmts[2])
    IN  IF c.table \notin VALID_TABLES
        THEN Answer(ErrorOut("Invalid table name"), <<>>)
        ELSE IF Len(c.columns) > MAX_COLUMN_SPEC_LENGTH
        THEN Answer(ErrorOut("Column specification too long"), <<>>)
        ELSE IF ~Falsy(c.filter_value) /\ Len(c.filter_value) > MAX_FILTER_VALUE_LENGTH
        THEN Answer(ErrorOut("Filter value too long"), <<>>)
        ELSE IF ~vc.valid
        THEN Answer(ErrorOut(vc.text), <<>>)
        ELSE IF vo.raised
        THEN Answer(RaisedOut(vo.text), <<>>)
        ELSE IF ~vo.valid
        THEN Answer(ErrorOut(vo.text), <<>>)
        ELSE IF ~Falsy(c.filter_column) /\ ~FilterColumnAllowed(c.filter_column, allowed)
        THEN Answer(ErrorOut("Invalid filter column"), <<>>)
        ELSE IF ~Falsy(c.filter_column) /\ Str(UpperText(c.filter_op)) \notin allowed_ops
        THEN Answer(ErrorOut("Invalid filter operator"), <<>>)
        ELSE IF total.raised
        THEN Answer(RaisedOut("binding"), <<stmts[1]>>)
        ELSE IF rows.raised
        THEN Answer(RaisedOut("binding"), stmts)
        ELSE Answer([kind |-> "rows", error |-> "", rows |-> rows.rows,
                     count |-> Len(rows.rows), total |-> total.total,
                     offset |-> offset, limit |-> limit], stmts)

\* config.py:167
MEMORY_TYPES == {"fact", "entity", "preference", "context"}

\* the placeholders 1..n of a VALUES list, separated by commas
ValuesFrags(b, n) ==
    LET Piece(i) == IF i % 2 = 1 THEN placeholder(b, (i + 1) \div 2) ELSE Sql(", ")
    IN  [i \in 1..(2 * n - 1) |-> Piece(i)]

InsertMemoryAnyKey(b, stmt, rows) ==
    LET v(k) == BoundValue(b, stmt, InOrder(PlaceholdersOf(stmt.frags))[k])
        id == Len(rows) + 1
    IN  IF Faulted(b, stmt)
        THEN [raised |-> "binding", rows |-> rows, id |-> 0]
        ELSE [raised |-> "",
              rows |-> Append(rows, MemoryRow(id, v(1), v(2), v(3), v(4), v(5), v(6))),
              id |-> id]

\* execute() of INSERT INTO memories (key, content, summary, memory_type,
\* importance, tags, source_agent, system) VALUES (...): key is UNIQUE, id
\* is AUTOINCREMENT
InsertMemory(b, stmt, rows) ==
    LET v(k) == BoundValue(b, stmt, InOrder(PlaceholdersOf(stmt.frags))[k])
        id == Len(rows) + 1
    IN  IF Faulted(b, stmt)
        THEN [raised |-> "binding", rows |-> rows, id |-> 0]
        ELSE IF \E i \in 1..Len(rows) : rows[i].key = v(1)
        THEN [raised |-> "UNIQUE constraint failed: memories.key",
              rows |-> rows, id |-> 0]
        ELSE [raised |-> "",
              rows |-> Append(rows, MemoryRow(id, v(1), v(2), v(3), v(4), v(5), v(6))),
              id |-> id]

\* CURRENT_TIMESTAMP of a statement that runs after the rows were created
Now == <<"now">>

\* the cell that the assignment at position i of a SET clause writes: the
\* argument of its placeholder, the time, or the cell plus one
Assigned(b, stmt, i, row) ==
    LET rhs == stmt.frags[i + 2]
    IN  IF rhs.role = "placeholder" THEN BoundValue(b, stmt, i + 2)
        ELSE IF rhs.text = "CURRENT_TIMESTAMP" THEN Now
        ELSE row[stmt.frags[i].text] + 1

\* execute() of UPDATE memories SET <column> = <value>, ... WHERE key = ...:
\* the rows after it and the number of rows it changed
UpdateMemories(b, stmt, rows) ==
    LET frags == stmt.frags
        sets == FragsWith(frags, "set")
        Hit(row) == \E i \in ComparisonsOf(frags) : Holds(b, stmt, i, row)
        Written(row) ==
            [col \in DOMAIN row |->
                IF \E i \in sets : frags[i].text = col
                THEN Assigned(b, stmt, CHOOSE i \in sets : frags[i].text = col, row)
                ELSE row[col]]
    IN  IF Faulted(b, stmt) THEN [raised |-> TRUE, rows |-> rows, rowcount |-> 0]
        ELSE [raised |-> FALSE,
              rows |-> [k \in 1..Len(rows) |->
                           IF Hit(rows[k]) THEN Written(rows[k]) ELSE rows[k]],
              rowcount |-> Cardinality({k \in 1..Len(rows) : Hit(rows[k])})]

\* config.py:170
MEMORY_STATUSES == {"staging", "promoted", "archived"}

\* `"0" in result`, for the result text "OK <rowcount>" or "UPDATE <rowcount>"
RECURSIVE HasZeroDigit(_)
HasZeroDigit(n) == n % 10 = 0 \/ (n >= 10 /\ HasZeroDigit(n \div 10))

\* the assignments of update_memory, in the order the code appends them;
\* an optional number is <<>> for None and <<n>> for n
Updates(c) ==
    LET lo == IF c.importance # <<>> /\ c.importance[1] < 10 THEN c.importance[1] ELSE 10
        importance == IF lo > 1 THEN lo ELSE 1
    IN  (IF c.content # None THEN <<[col |-> "content", arg |-> <<c.content>>]>> ELSE <<>>)
        \o (IF c.summary # None THEN <<[col |-> "summary", arg |-> <<c.summary>>]>> ELSE <<>>)
        \o (IF c.importance # <<>> THEN <<[col |-> "importance", arg |-> <<importance>>]>> ELSE <<>>)
        \o (IF c.tags # None THEN <<[col |-> "tags", arg |-> <<c.tags>>]>> ELSE <<>>)
        \o (IF c.status # None THEN <<[col |-> "status", arg |-> <<Str(c.status)>>]>> ELSE <<>>)
        \o (IF c.status = <<"promoted">> THEN <<[col |-> "promoted_at", arg |-> <<>>]>> ELSE <<>>)

\* ', '.join(updates), with the placeholders numbered as the code numbers
\* them
RECURSIVE SetFrags(_, _, _)
SetFrags(dialect, updates, idx) ==
    IF updates = <<>> THEN <<>>
    ELSE LET u == Head(updates)
             one == IF u.arg = <<>>
                    THEN <<Frag("set", u.col), Sql(" = "), Frag("expr", "CURRENT_TIMESTAMP")>>
                    ELSE <<Frag("set", u.col), Sql(" = "), placeholder(dialect, idx)>>
             next == IF u.arg = <<>> THEN idx ELSE idx + 1
         IN  one \o (IF Len(updates) > 1 THEN <<Sql(", ")>> ELSE <<>>)
                 \o SetFrags(dialect, Tail(updates), next)

RECURSIVE Params(_)
Params(updates) ==
    IF updates = <<>> THEN <<>> ELSE Head(updates).arg \o Params(Tail(updates))

\* server.py:649-740
update_memory(c, db, backend, rows) ==
    LET dialect == [kind |-> backend]
        updates == Updates(c)
        params == Params(updates)
        sql == Statement("update",
                   <<Sql("UPDATE "), Frag("table", "memories"), Sql(" SET ")>>
                     \o SetFrags(dialect, updates, 1)
                     \o <<Sql(" WHERE "), Frag("column", "key"), Sql(" "),
                          Frag("op", "="), Sql(" "),
                          placeholder(dialect, Len(params) + 1)>>,
                   Append(params, c.key))
        done == UpdateMemories(db, sql, rows)
    IN  IF ~Falsy(c.status) /\ Str(c.status) \notin MEMORY_STATUSES
        THEN [out |-> ErrorOut("Invalid status"), issued |-> <<>>, rows |-> rows]
        ELSE IF updates = <<>>
        THEN [out |-> ErrorOut("No fields to update"), issued |-> <<>>, rows |-> rows]
        ELSE IF done.raised
        THEN [out |-> RaisedOut("binding"), issued |-> <<sql>>, rows |-> rows]
        ELSE IF HasZeroDigit(done.rowcount)
        THEN [out |-> ErrorOut("No memory found"), issued |-> <<sql>>, rows |-> done.rows]
        ELSE [out |-> [kind |-> "updated", error |-> "", key |-> c.key,
                       updated_fields |-> Len(updates)],
              issued |-> <<sql>>, rows |-> done.rows]

get_memory_touch(key, db) ==
    Statement("touch",
        <<Sql("UPDATE "), Frag("table", "memories"), Sql(" SET "),
          Frag("set", "last_accessed"), Sql(" = "), Frag("expr", "CURRENT_TIMESTAMP"),
          Sql(" WHERE "), Frag("column", "key"), Sql(" "), Frag("op", "="), Sql(" "),
          placeholder(db, 1)>>,
        <<key>>)

\* server.py:574-580: the first statement of get_memory
get_memory_update(key, db) ==
    Statement("touch",
        <<Sql("UPDATE "), Frag("table", "memories"), Sql(" SET "),
          Frag("set", "access_count"), Sql(" = "), Frag("expr", "access_count + 1"),
          Sql(", "),
          Frag("set", "last_accessed"), Sql(" = "), Frag("expr", "CURRENT_TIMESTAMP"),
          Sql(" WHERE "), Frag("column", "key"), Sql(" "), Frag("op", "="), Sql(" "),
          placeholder(db, 1)>>,
        <<key>>)

\* server.py:582: the second statement of get_memory
get_memory_select(key, db) ==
    Statement("get",
        <<Sql("SELECT "), Frag("select", "*"), Sql(" FROM "),
          Frag("table", "memories"), Sql(" WHERE "), Frag("column", "key"),
          Sql(" "), Frag("op", "="), Sql(" "), placeholder(db, 1)>>,
        <<key>>)

\* server.py:594-645.  The statement is written for the dialect that
\* get_backend() names and executed by the instance of get_db().
store_memory(c, db, backend, rows) ==
    LET lo == IF c.importance < 10 THEN c.importance ELSE 10
        importance == IF lo > 1 THEN lo ELSE 1
        dialect == [kind |-> backend]
        insert ==
            Statement("insert",
                <<Sql("INSERT INTO "), Frag("table", "memories"),
                  Sql(" (key, content, summary, memory_type, importance, tags, source_agent, system) VALUES (")>>
                  \o ValuesFrags(dialect, 8)
                  \o (IF backend = SQLITE THEN <<Sql(")")>> ELSE <<Sql(") RETURNING id")>>),
                <<c.key, c.content, c.summary, c.memory_type, importance,
                  c.tags, None, None>>)
        rowid == Statement("last_insert_rowid",
                           <<Sql("SELECT last_insert_rowid() as id")>>, <<>>)
        done == InsertMemory(db, insert, rows)
        stmts == IF backend = SQLITE /\ done.raised = "" THEN <<insert, rowid>>
                 ELSE <<insert>>
    IN  IF c.memory_type \notin MEMORY_TYPES
        THEN [out |-> ErrorOut("Invalid memory_type"), issued |-> <<>>, rows |-> rows]
        ELSE IF done.raised = "UNIQUE constraint failed: memories.key"
        THEN [out |-> ErrorOut("Memory already exists"), issued |-> stmts, rows |-> rows]
        ELSE IF done.raised # ""
        THEN [out |-> RaisedOut(done.raised), issued |-> stmts, rows |-> rows]
        ELSE [out |-> [kind |-> "stored", error |-> "", id |-> done.id, key |-> c.key],
              issued |-> stmts, rows |-> done.rows]

\* the comparisons `like1 OR like2 OR ...` of a search
RECURSIVE AnyLike(_, _, _)
AnyLike(db, columns, ph) ==
    IF columns = <<>> THEN <<>>
    ELSE ilike(db, Head(columns), ph)
           \o (IF Len(columns) = 1 THEN <<>> ELSE <<Sql(" OR ")>>)
           \o AnyLike(db, Tail(columns), ph)

RECURSIVE OrderKeys(_)
OrderKeys(keys) ==
    IF keys = <<>> THEN <<>>
    ELSE <<Frag("order", Head(keys)), Sql(" "), Frag("direction", "DESC")>>
           \o (IF Len(keys) = 1 THEN <<>> ELSE <<Sql(", ")>>)
           \o OrderKeys(Tail(keys))

\* server.py:352-399  the columns each searched table is read, matched and
\* ordered by
SearchShape(table) ==
    CASE table = "memories" ->
            [select |-> <<"id", "key", "summary", "memory_type", "importance", "tags", "created_at">>,
             like |-> <<"content", "summary", "key", "tags">>,
             order |-> <<"importance", "created_at">>]
      [] table = "knowledge_base" ->
            [select |-> <<"id", "category", "title", "tags", "created_at", "updated_at">>,
             like |-> <<"title", "content", "tags", "category">>,
             order |-> <<"updated_at">>]
      [] table = "entries" ->
            [select |-> <<"id", "timestamp", "agent", "task_type", "title", "outcome", "tags">>,
             like |-> <<"title", "details", "outcome", "tags">>,
             order |-> <<"timestamp">>]
      [] table = "research" ->
            [select |-> <<"id", "source_type", "title", "summary", "relevance_score", "tags", "status">>,
             like |-> <<"title", "summary", "key_points", "tags">>,
             order |-> <<"relevance_score", "created_at">>]

SearchedTables == {"memories", "knowledge_base", "entries", "research"}

\* server.py:349-409  the statement for one table
SearchStatement(table, db, backend, search_term, limit) ==
    LET shape == SearchShape(table)
        p1 == placeholder(db, 1)
        p2 == placeholder(db, 2)
    IN  Statement(table,
            <<Sql("SELECT ")>> \o ColumnFrags(shape.select)
              \o <<Sql(" FROM "), Frag("table", table), Sql(" WHERE ")>>
              \o AnyLike(db, shape.like, p1)
              \o <<Sql(" ORDER BY ")>> \o OrderKeys(shape.order)
              \o <<LimitKeyword, p2>>,
            IF backend = SQLITE
            THEN <<search_term, search_term, search_term, search_term, limit>>
            ELSE <<search_term, limit>>)

\* list(VALID_TABLES): a frozenset has no order of its own; the searches
\* are reads that do not depend on one another
AllTables ==
    <<"memories", "knowledge_base", "entries", "research", "agent_chat",
      "issues", "error_patterns", "tag_taxonomy", "relationships",
      "topic_index", "topic_entries", "duplicate_candidates",
      "promotion_history", "curation_history">>

\* server.py:312-416
search_knowledge(c, db, backend) ==
    LET lo == IF c.limit > 1 THEN c.limit ELSE 1
        limit == IF lo < 100 THEN lo ELSE 100
        pieces == SplitOn(c.tables, ",")
        named == IF Falsy(c.tables) THEN AllTables
                 ELSE [i \in 1..Len(pieces) |-> Str(pieces[i])]
        stripped == IF Falsy(c.tables) THEN AllTables
                    ELSE [i \in 1..Len(pieces) |-> Str(Strip(pieces[i]))]
        kept == {i \in 1..Len(named) : stripped[i] \in VALID_TABLES}
        search_tables == [k \in 1..Cardinality(kept) |-> stripped[InOrder(kept)[k]]]
        IsSearched(t) == t \in SearchedTables
        run == SelectSeq(search_tables, IsSearched)
        search_term == _escape_search_wildcards(c.query)
        stmts == [k \in 1..Len(run) |->
                     SearchStatement(run[k], db, backend, search_term, limit)]
        faulty == {k \in 1..Len(run) : BindingFault(db, stmts[k])}
    IN  IF Len(c.query) > MAX_SEARCH_QUERY_LENGTH
        THEN Answer(ErrorOut("Search query too long"), <<>>)
        ELSE IF search_tables = <<>>
        THEN Answer(ErrorOut("No valid tables specified"), <<>>)
        ELSE IF faulty # {}
        THEN Answer(RaisedOut("binding"), SubSeq(stmts, 1, SetMin(faulty)))
        ELSE Answer([kind |-> "results", error |-> "", query |-> c.query,
                     results |-> [t \in Range(run) |->
                                     fetchall(db, SearchStatement(t, db, backend, search_term, limit)).rows],
                     tables_searched |-> search_tables],
                    stmts)

\* server.py:420-540.  The memories statement is written for the dialect
\* that get_backend() names; the other two are written with the
\* placeholders of the instance of get_db() and take two arguments.
recall_context(c, db, backend) ==
    LET lo == IF c.limit > 1 THEN c.limit ELSE 1
        limit == IF lo < 100 THEN lo ELSE 100
        mlo == IF c.min_importance > 1 THEN c.min_importance ELSE 1
        min_importance == IF mlo < 10 THEN mlo ELSE 10
        pieces == IF Falsy(c.memory_types) THEN <<<<"fact">>, <<"context">>>>
                  ELSE SplitOn(c.memory_types, ",")
        kept == SelectSeq(pieces, LAMBDA t : Str(Strip(t)) \in MEMORY_TYPES)
        types == [i \in 1..Len(kept) |-> Str(Strip(kept[i]))]
        search_term == _escape_search_wildcards(c.topic)
        dialect == [kind |-> backend]
        p1 == placeholder(db, 1)
        p2 == placeholder(db, 2)
        select == <<Sql("SELECT ")>>
                    \o ColumnFrags(<<"id", "key", "content", "summary",
                                     "memory_type", "importance", "tags",
                                     "created_at">>)
                    \o <<Sql(" FROM "), Frag("table", "memories"), Sql(" WHERE ")>>
        likes == <<"content", "summary", "key", "tags">>
        order == <<Sql(") ORDER BY ")>> \o OrderKeys(<<"importance", "last_accessed">>)
                   \o <<LimitKeyword>>
        memory_sql ==
            IF backend = SQLITE
            THEN Statement("memories",
                     select \o <<Sql("memory_type IN (")>>
                       \o (IF types = <<>> THEN <<>>
                           ELSE ValuesFrags(dialect, Len(types)))
                       \o <<Sql(") AND importance >= "),
                            placeholder(dialect, Len(types) + 1),
                            Sql(" AND status != 'archived' AND (")>>
                       \o AnyLike(db, likes, placeholder(dialect, Len(types) + 2))
                       \o order \o <<placeholder(dialect, Len(types) + 3)>>,
                     types \o <<min_importance, search_term, search_term,
                                search_term, search_term, limit>>)
            ELSE Statement("memories",
                     select \o <<Sql("memory_type = ANY("), placeholder(dialect, 1),
                                 Sql("::text[]) AND importance >= "),
                                 placeholder(dialect, 2),
                                 Sql(" AND status != 'archived' AND (")>>
                       \o AnyLike(db, likes, placeholder(dialect, 3))
                       \o order \o <<placeholder(dialect, 4)>>,
                     <<types, min_importance, search_term, limit>>)
        kb_sql ==
            Statement("knowledge_base",
                <<Sql("SELECT ")>>
                  \o ColumnFrags(<<"id", "category", "title", "content", "tags",
                                   "updated_at">>)
                  \o <<Sql(" FROM "), Frag("table", "knowledge_base"), Sql(" WHERE ")>>
                  \o AnyLike(db, <<"title", "content", "tags">>, p1)
                  \o <<Sql(" ORDER BY ")>> \o OrderKeys(<<"updated_at">>)
                  \o <<LimitKeyword, p2>>,
                <<search_term, limit \div 2>>)
        recent_sql ==
            Statement("entries",
                <<Sql("SELECT ")>>
                  \o ColumnFrags(<<"id", "timestamp", "agent", "task_type", "title",
                                   "outcome", "tags">>)
                  \o <<Sql(" FROM "), Frag("table", "entries"),
                       Sql(" WHERE timestamp > <interval_days(7)> AND (")>>
                  \o AnyLike(db, <<"title", "tags">>, p1)
                  \o <<Sql(") ORDER BY ")>> \o OrderKeys(<<"timestamp">>)
                  \o <<LimitKeyword, p2>>,
                <<search_term, limit \div 2>>)
        Liked(row, col) ==
            row[col] # None /\ LikeHolds(db, "ILIKE", search_term, row[col])
        Wanted(row) ==
            /\ row.memory_type \in Range(types)
            /\ row.importance >= min_importance
            /\ row.status # "archived"
            /\ \E i \in 1..Len(likes) : Liked(row, likes[i])
        found == Page(Ordered(SelectSeq(memories, Wanted), memory_sql.frags,
                              InOrder(FragsWith(memory_sql.frags, "order"))),
                      limit, 0)
        knowledge == fetchall(db, kb_sql)
        recent_work == fetchall(db, recent_sql)
    IN  IF Len(c.topic) > MAX_SEARCH_QUERY_LENGTH
        THEN Answer(ErrorOut("Topic too long"), <<>>)
        ELSE IF Faulted(db, memory_sql)
        THEN Answer(RaisedOut("binding"), <<memory_sql>>)
        ELSE IF knowledge.raised
        THEN Answer(RaisedOut("binding"), <<memory_sql, kb_sql>>)
        ELSE IF c.include_recent /\ recent_work.raised
        THEN Answer(RaisedOut("binding"), <<memory_sql, kb_sql, recent_sql>>)
        ELSE Answer([kind |-> "context", error |-> "", memories |-> found,
                     knowledge |-> knowledge.rows,
                     recent_work |-> IF c.include_recent THEN recent_work.rows
                                     ELSE <<>>],
                    IF c.include_recent THEN <<memory_sql, kb_sql, recent_sql>>
                    ELSE <<memory_sql, kb_sql>>)

\* server.py:1838-1879  the answer for a topic row that was found
TopicFound(c, db, backend, topic, stmts) ==
    LET dialect == [kind |-> backend]
        entries ==
            Statement("topic_entries",
                <<Sql("SELECT te.entry_table, te.entry_id, te.relevance_score, CASE te.entry_table ... END as entry_title FROM "),
                  Frag("table", "topic_entries"), Sql(" te WHERE te.topic_id = "),
                  placeholder(dialect, 1),
                  Sql(" ORDER BY te.relevance_score DESC"), LimitKeyword,
                  placeholder(dialect, 2)>>,
                <<topic.id, c.max_entries>>)
        linked == c.include_entries /\ topic.entry_count > 0
        members == SelectSeq(topic_entries, LAMBDA te : te.topic_id = topic.id)
        sorted == SortSeq(members,
                          LAMBDA a, b : a.relevance_score > b.relevance_score)
        page == Page(sorted, c.max_entries, 0)
    IN  IF linked /\ Faulted(db, entries)
        THEN Answer(RaisedOut("binding"), Append(stmts, entries))
        ELSE Answer([kind |-> "topic", error |-> "", topic |-> topic,
                     entries |-> IF linked
                                 THEN [i \in 1..Len(page) |->
                                          [entry_table |-> page[i].entry_table,
                                           entry_id |-> page[i].entry_id,
                                           relevance_score |-> page[i].relevance_score]]
                                 ELSE <<>>],
                    IF linked THEN Append(stmts, entries) ELSE stmts)

\* server.py:1793-1879
recall_topic(c, db, backend) ==
    LET from_topic == <<Sql("SELECT "), Frag("select", "*"), Sql(" FROM "),
                         Frag("table", "topic_index"), Sql(" WHERE "),
                         Frag("column", "topic_name"), Sql(" ")>>
        exact == Statement("topic",
                     from_topic \o <<Frag("op", "="), Sql(" "), placeholder(db, 1)>>,
                     <<c.topic_name>>)
        partial ==
            Statement("topic_partial",
                from_topic
                  \o <<Frag("op", IF backend = SQLITE THEN "LIKE" ELSE "ILIKE"),
                       Sql(" "), placeholder([kind |-> backend], 1),
                       Sql(" ORDER BY "), Frag("order", "entry_count"), Sql(" "),
                       Frag("direction", "DESC"), LimitKeyword, Number("limit", 1)>>,
                <<(<<"%">> \o c.topic_name \o <<"%">>)>>)
        first == fetchall(db, exact)
        second == fetchall(db, partial)
    IN  IF first.raised THEN Answer(RaisedOut("binding"), <<exact>>)
        ELSE IF first.rows # <<>>
        THEN TopicFound(c, db, backend, first.rows[1], <<exact>>)
        ELSE IF second.raised THEN Answer(RaisedOut("binding"), <<exact, partial>>)
        ELSE IF second.rows # <<>>
        THEN TopicFound(c, db, backend, second.rows[1], <<exact, partial>>)
        ELSE Answer(ErrorOut("Topic not found"), <<exact, partial>>)

\* config.py:156-158: the default agents and those of WORKLOG_AGENTS, which
\* names one more agent in the chat runs
AGENTS == {"claude", "all", "codex"}

\* config.py:164
CHAT_PRIORITIES == {"low", "normal", "urgent"}

\* server.py:917-946, with WORKLOG_AGENT_NAME and WORKLOG_HOSTNAME_MAP unset
_detect_agent == "claude"

\* `if not agent: agent = _detect_agent()`: None and "" are both falsy
AgentOr(agent) == IF agent = "" THEN _detect_agent ELSE agent

\* a row of agent_chat as the INSERT of send_message leaves it
\* (database.py:159-172); the clock of created_at is the row id
ChatRow(id, from_agent, to_agent, message, priority) ==
    [id |-> id, from_agent |-> from_agent, to_agent |-> to_agent,
     message |-> message, context |-> None, priority |-> priority,
     status |-> "pending", parent_id |-> None, response |-> None,
     created_at |-> id, read_at |-> None, resolved_at |-> None]

\* a statement on agent_chat, by the name of what it does
ChatStatement(id, args) ==
    Statement(id, <<Sql(id \o " "), Frag("table", "agent_chat")>>, args)

\* server.py:949-1004
send_message(c, db, rows) ==
    LET from_agent == AgentOr(c.from_agent)
        id == Len(rows) + 1
        insert == ChatStatement("INSERT INTO",
                      <<from_agent, c.to_agent, c.message, None, c.priority>>)
    IN  IF c.to_agent \notin AGENTS
        THEN [out |-> ErrorOut("Invalid agent"), issued |-> <<>>, rows |-> rows]
        ELSE IF c.priority \notin CHAT_PRIORITIES
        THEN [out |-> ErrorOut("Invalid priority"), issued |-> <<>>, rows |-> rows]
        ELSE IF ~TableExists(db, "agent_chat")
        THEN [out |-> RaisedOut("no such table"), issued |-> <<insert>>, rows |-> rows]
        ELSE [out |-> [kind |-> "sent", error |-> "", message_id |-> id,
                       to |-> c.to_agent, from |-> from_agent],
              issued |-> <<insert>>,
              rows |-> Append(rows, ChatRow(id, from_agent, c.to_agent,
                                            c.message, c.priority))]

\* CASE priority WHEN 'urgent' THEN 0 WHEN 'normal' THEN 1 ELSE 2 END
PriorityRank(priority) ==
    IF priority = "urgent" THEN 0 ELSE IF priority = "normal" THEN 1 ELSE 2

\* the SELECT of check_messages (server.py:1030-1054): the messages to the
\* agent or to all, not from the agent, in one of the statuses, the urgent
\* first and the newest first
Inbox(rows, agent, statuses) ==
    LET Kept(m) ==
            /\ (m.to_agent = agent \/ m.to_agent = "all")
            /\ m.from_agent # agent
            /\ m.status \in statuses
        Before(m1, m2) ==
            \/ PriorityRank(m1.priority) < PriorityRank(m2.priority)
            \/ /\ PriorityRank(m1.priority) = PriorityRank(m2.priority)
               /\ m1.created_at > m2.created_at
    IN  SortSeq(SelectSeq(rows, Kept), Before)

\* UPDATE agent_chat SET status = 'read', read_at = CURRENT_TIMESTAMP WHERE
\* id IN (...)  (server.py:1065-1077)
MarkRead(rows, ids) ==
    [k \in 1..Len(rows) |->
        IF rows[k].id \in ids
        THEN [rows[k] EXCEPT !.status = "read", !.read_at = Now]
        ELSE rows[k]]

\* server.py:1008-1083
check_messages(c, db, rows) ==
    LET agent == AgentOr(c.agent)
        statuses == IF c.include_read THEN {"pending", "read"} ELSE {"pending"}
        messages == Inbox(rows, agent, statuses)
        pending_ids == {messages[i].id : i \in {j \in 1..Len(messages) :
                                                  messages[j].status = "pending"}}
        select == ChatStatement("SELECT", <<agent, statuses>>)
        update == ChatStatement("UPDATE read", <<pending_ids>>)
    IN  IF ~TableExists(db, "agent_chat")
        THEN [out |-> RaisedOut("no such table"), issued |-> <<select>>, rows |-> rows]
        ELSE [out |-> [kind |-> "messages", error |-> "", messages |-> messages,
                       count |-> Len(messages), agent |-> agent],
              issued |-> IF pending_ids # {} THEN <<select, update>> ELSE <<select>>,
              rows |-> IF pending_ids # {} THEN MarkRead(rows, pending_ids) ELSE rows]

\* UPDATE agent_chat SET response = ?, status = ?, resolved_at =
\* CURRENT_TIMESTAMP WHERE id = ?  (server.py:1120-1133)
Respond(rows, message_id, response, new_status) ==
    [k \in 1..Len(rows) |->
        IF rows[k].id = message_id
        THEN [rows[k] EXCEPT !.response = response, !.status = new_status,
                             !.resolved_at = Now]
        ELSE rows[k]]

\* server.py:1087-1140
reply_message(c, db, rows) ==
    LET from_agent == AgentOr(c.from_agent)
        select == ChatStatement("SELECT id", <<c.message_id>>)
        original == SelectSeq(rows, LAMBDA m : m.id = c.message_id)
        new_status == IF c.resolve THEN "resolved" ELSE "replied"
        update == ChatStatement("UPDATE response", <<c.response, new_status, c.message_id>>)
    IN  IF ~TableExists(db, "agent_chat")
        THEN [out |-> RaisedOut("no such table"), issued |-> <<select>>, rows |-> rows]
        ELSE IF original = <<>>
        THEN [out |-> ErrorOut("Message not found"), issued |-> <<select>>, rows |-> rows]
        ELSE [out |-> [kind |-> "replied", error |-> "", message_id |-> c.message_id,
                       original_from |-> original[1].from_agent,
                       resolved |-> c.resolve],
              issued |-> <<select, update>>,
              rows |-> Respond(rows, c.message_id, c.response, new_status)]

\* config.py:185-188
RELATIONSHIP_TYPES ==
    {"relates_to", "supersedes", "implements", "documents", "duplicate_of",
     "depends_on", "parent_of", "child_of"}

\* config.py:190
ENTRY_TABLES == {"memories", "knowledge_base", "entries"}

\* a row of relationships; confidence is held in hundredths
RelationshipRow(id, c, confidence) ==
    [id |-> id, source_table |-> c.source_table, source_id |-> c.source_id,
     target_table |-> c.target_table, target_id |-> c.target_id,
     relationship_type |-> c.relationship_type, confidence |-> confidence,
     bidirectional |-> c.bidirectional, created_by |-> None]

\* the entry that a (table, id) pair names is stored
EntryExists(table, id) ==
    \E k \in 1..Len(TableRows(table)) : TableRows(table)[k].id = id

SameEdge(r, c) ==
    /\ r.source_table = c.source_table /\ r.source_id = c.source_id
    /\ r.target_table = c.target_table /\ r.target_id = c.target_id
    /\ r.relationship_type = c.relationship_type

\* the INSERT INTO relationships on a database that has the table: the
\* storage layer refuses a second row of the same source, target and type
\* and a row whose source or target entry does not exist, with the messages
\* that add_relationship looks for (server.py:1406-1409)
InsertRelationship(rows, c, confidence) ==
    IF \E k \in 1..Len(rows) : SameEdge(rows[k], c)
    THEN [raised |-> "duplicate key value violates unique constraint", rows |-> rows, id |-> 0]
    ELSE IF ~EntryExists(c.source_table, c.source_id)
    THEN [raised |-> "Invalid source reference", rows |-> rows, id |-> 0]
    ELSE IF ~EntryExists(c.target_table, c.target_id)
    THEN [raised |-> "Invalid target reference", rows |-> rows, id |-> 0]
    ELSE [raised |-> "",
          rows |-> Append(rows, RelationshipRow(Len(rows) + 1, c, confidence)),
          id |-> Len(rows) + 1]

\* a statement on relationships, by the name of what it does
GraphStatement(id, args) ==
    Statement(id, <<Sql(id \o " "), Frag("table", "relationships")>>, args)

\* server.py:1345-1410
add_relationship(c, db, rows) ==
    LET lo == IF c.confidence < 100 THEN c.confidence ELSE 100
        confidence == IF lo > 0 THEN lo ELSE 0
        insert == GraphStatement("INSERT INTO",
                      <<c.source_table, c.source_id, c.target_table, c.target_id,
                        c.relationship_type, confidence, c.bidirectional, None>>)
        done == InsertRelationship(rows, c, confidence)
    IN  IF c.source_table \notin ENTRY_TABLES
        THEN [out |-> ErrorOut("Invalid source_table"), issued |-> <<>>, rows |-> rows]
        ELSE IF c.target_table \notin ENTRY_TABLES
        THEN [out |-> ErrorOut("Invalid target_table"), issued |-> <<>>, rows |-> rows]
        ELSE IF c.relationship_type \notin RELATIONSHIP_TYPES
        THEN [out |-> ErrorOut("Invalid relationship_type"), issued |-> <<>>, rows |-> rows]
        ELSE IF ~TableExists(db, "relationships")
        THEN [out |-> RaisedOut("no such table: relationships"),
              issued |-> <<insert>>, rows |-> rows]
        ELSE IF done.raised = "duplicate key value violates unique constraint"
        THEN [out |-> ErrorOut("This relationship already exists"),
              issued |-> <<insert>>, rows |-> rows]
        ELSE IF done.raised # ""
        THEN [out |-> ErrorOut(done.raised), issued |-> <<insert>>, rows |-> rows]
        ELSE [out |-> [kind |-> "added", error |-> "", id |-> done.id],
              issued |-> <<insert>>, rows |-> done.rows]

\* an entry, as the pair find_related keeps of it
Entry(table, id) == [table |-> table, id |-> id]

\* [t.strip() for t in (relationship_types or "").split(",") if t.strip()]
TypeFilter(relationship_types) ==
    LET pieces == SplitOn(IF Falsy(relationship_types) THEN <<>> ELSE relationship_types, ",")
        kept == SelectSeq(pieces, LAMBDA t : Strip(t) # <<>>)
    IN  [i \in 1..Len(kept) |-> Str(Strip(kept[i]))]

InFilter(r, type_filter) ==
    type_filter = <<>> \/ \E i \in 1..Len(type_filter) : r.relationship_type = type_filter[i]

\* SELECT target_table, target_id, ... FROM relationships WHERE source_table
\* = ? AND source_id = ? [AND relationship_type IN (...)]
Outgoing(rows, e, type_filter) ==
    SelectSeq(rows, LAMBDA r : /\ r.source_table = e.table /\ r.source_id = e.id
                              /\ InFilter(r, type_filter))

IncomingAny(rows, e, type_filter) ==
    SelectSeq(rows, LAMBDA r : /\ r.target_table = e.table /\ r.target_id = e.id
                              /\ InFilter(r, type_filter))

\* SELECT source_table, source_id, ... FROM relationships WHERE target_table
\* = ? AND target_id = ? AND bidirectional = 1 [AND relationship_type IN (...)]
Incoming(rows, e, type_filter) ==
    SelectSeq(rows, LAMBDA r : /\ r.target_table = e.table /\ r.target_id = e.id
                              /\ r.bidirectional
                              /\ InFilter(r, type_filter))

\* the loops over `outgoing` and `incoming` (server.py:1951-1977): an entry
\* not visited yet is marked, queued for the next level and listed
RECURSIVE Absorb(_, _, _)
Absorb(st, found, direction) ==
    IF found = <<>> THEN st
    ELSE LET row == Head(found)
             e == IF direction = "outgoing"
                  THEN Entry(row.target_table, row.target_id)
                  ELSE Entry(row.source_table, row.source_id)
             listed == [table |-> e.table, id |-> e.id,
                        relationship |-> row.relationship_type,
                        confidence |-> row.confidence, direction |-> direction]
         IN  IF e \in st.visited THEN Absorb(st, Tail(found), direction)
             ELSE Absorb([st EXCEPT !.visited = @ \cup {e},
                                    !.next_level = Append(@, e),
                                    !.level_results = Append(@, listed)],
                         Tail(found), direction)

TraversalAnyDepth(c) ==
    [depth |-> IF c.depth > 1 THEN c.depth ELSE 1,
     type_filter |-> TypeFilter(c.relationship_types),
     level |-> 1,
     visited |-> {Entry(c.entry_table, c.entry_id)},
     current_level |-> <<Entry(c.entry_table, c.entry_id)>>,
     next_level |-> <<>>,
     level_results |-> <<>>,
     levels |-> <<>>]

\* server.py:1906-1913: the traversal before its first level
Traversal(c) ==
    LET lo == IF c.depth < 3 THEN c.depth ELSE 3
    IN  [depth |-> IF lo > 1 THEN lo ELSE 1,
         type_filter |-> TypeFilter(c.relationship_types),
         level |-> 1,
         visited |-> {Entry(c.entry_table, c.entry_id)},
         current_level |-> <<Entry(c.entry_table, c.entry_id)>>,
         next_level |-> <<>>,
         level_results |-> <<>>,
         levels |-> <<>>]

\* one pass of `for table, eid in current_level` (server.py:1919-1977), and
\* after the last entry of the level the end of the pass of `for level`
\* (server.py:1979-1984)
Expanded(st, rows) ==
    LET e == Head(st.current_level)
        seen == Absorb(Absorb(st, Outgoing(rows, e, st.type_filter), "outgoing"),
                       Incoming(rows, e, st.type_filter), "incoming")
        rest == Tail(st.current_level)
        levels == IF seen.level_results # <<>>
                  THEN Append(st.levels, [level |-> st.level, entries |-> seen.level_results])
                  ELSE st.levels
    IN  IF rest # <<>> THEN [done |-> FALSE, st |-> [seen EXCEPT !.current_level = rest]]
        ELSE IF st.level = st.depth \/ seen.next_level = <<>>
        THEN [done |-> TRUE, st |-> [seen EXCEPT !.current_level = seen.next_level,
                                                 !.levels = levels]]
        ELSE [done |-> FALSE,
              st |-> [seen EXCEPT !.level = @ + 1,
                                  !.current_level = seen.next_level,
                                  !.next_level = <<>>,
                                  !.level_results = <<>>,
                                  !.levels = levels]]

\* server.py:848-861.  The tables are counted in the order of TABLES; the
\* first statement that fails leaves the tool with its exception.
list_tables(db, backend) ==
    LET count(i) ==
            Statement("count_all",
                <<Sql("SELECT COUNT(*) as count FROM "), Frag("table", TABLES[i])>>,
                <<>>)
        failing == {i \in 1..Len(TABLES) : CountOf(db, count(i)).raised}
        last == IF failing = {} THEN Len(TABLES) ELSE SetMin(failing)
        stmts == [i \in 1..last |-> count(i)]
    IN  IF failing # {}
        THEN Answer(RaisedOut("no such table: " \o TABLES[last]), stmts)
        ELSE Answer([kind |-> "tables", error |-> "",
                     tables |-> [i \in 1..Len(TABLES) |->
                                    [name |-> TABLES[i],
                                     count |-> CountOf(db, count(i)).total]],
                     backend |-> backend], stmts)

\* the curation tools (server.py:1180-1790)

\* [a.strip() for a in (text or "").split(",") if a.strip()]
\* (server.py:1321, 1508)
CommaList(text) ==
    LET pieces == SplitOn(IF Falsy(text) THEN <<>> ELSE text, ",")
        kept == SelectSeq(pieces, LAMBDA a : Strip(a) # <<>>)
    IN  [i \in 1..Len(kept) |-> Strip(kept[i])]

\* ",".join(texts)
RECURSIVE JoinText(_)
JoinText(ss) ==
    IF ss = <<>> THEN <<>>
    ELSE IF Len(ss) = 1 THEN ss[1]
    ELSE ss[1] \o <<",">> \o JoinText(Tail(ss))

\* a row of tag_taxonomy; aliases is the list of alternate spellings
TagRow(id, canonical_tag, aliases, category, description) ==
    [id |-> id, canonical_tag |-> canonical_tag, aliases |-> aliases,
     category |-> category, description |-> description, usage_count |-> 0]

\* INSERT INTO tag_taxonomy: canonical_tag is unique whatever its case
InsertTag(b, stmt, rows, canonical_tag, aliases, category, description) ==
    LET id == Len(rows) + 1
    IN  IF Faulted(b, stmt)
        THEN [raised |-> IF TableExists(b, "tag_taxonomy") THEN "binding"
                         ELSE "no such table: tag_taxonomy",
              rows |-> rows, id |-> 0]
        ELSE IF \E i \in 1..Len(rows) :
                    LowerText(rows[i].canonical_tag) = LowerText(canonical_tag)
        THEN [raised |-> "duplicate key value violates unique constraint",
              rows |-> rows, id |-> 0]
        ELSE [raised |-> "",
              rows |-> Append(rows, TagRow(id, canonical_tag, aliases,
                                           category, description)),
              id |-> id]

\* server.py:1301-1341
add_tag_taxonomy(c, db, backend, rows) ==
    LET alias_list == CommaList(c.aliases)
        dialect == [kind |-> backend]
        insert ==
            IF backend = SQLITE
            THEN Statement("insert_tag",
                     <<Sql("INSERT INTO "), Frag("table", "tag_taxonomy"),
                       Sql(" (canonical_tag, aliases, category, description) VALUES (")>>
                       \o ValuesFrags(dialect, 4) \o <<Sql(")")>>,
                     <<c.canonical_tag, JoinText(alias_list), c.category,
                       c.description>>)
            ELSE Statement("insert_tag",
                     <<Sql("INSERT INTO "), Frag("table", "tag_taxonomy"),
                       Sql(" (canonical_tag, aliases, category, description) VALUES ("),
                       placeholder(dialect, 1), Sql(", "),
                       placeholder(dialect, 2), Sql("::text[], "),
                       placeholder(dialect, 3), Sql(", "),
                       placeholder(dialect, 4), Sql(") RETURNING id")>>,
                     <<c.canonical_tag, alias_list, c.category, c.description>>)
        rowid == Statement("last_insert_rowid",
                           <<Sql("SELECT last_insert_rowid() as id")>>, <<>>)
        done == InsertTag(db, insert, rows, c.canonical_tag, alias_list,
                          c.category, c.description)
        stmts == IF backend = SQLITE /\ done.raised = "" THEN <<insert, rowid>>
                 ELSE <<insert>>
    IN  IF done.raised = "duplicate key value violates unique constraint"
        THEN [out |-> ErrorOut("Tag already exists in taxonomy"),
              issued |-> stmts, rows |-> rows]
        ELSE IF done.raised # ""
        THEN [out |-> RaisedOut(done.raised), issued |-> stmts, rows |-> rows]
        ELSE [out |-> [kind |-> "tagged", error |-> "", id |-> done.id,
                       canonical_tag |-> c.canonical_tag],
              issued |-> stmts, rows |-> done.rows]

\* server.py:1185-1252
normalize_tag(tag, db, backend) ==
    LET tag_lower == Strip(LowerText(tag))
        canonical ==
            Statement("canonical",
                <<Sql("SELECT "), Frag("select", "*"), Sql(" FROM "),
                  Frag("table", "tag_taxonomy"), Sql(" WHERE "),
                  Frag("fn", "LOWER("), Frag("column", "canonical_tag"), Sql(") "),
                  Frag("op", "="), Sql(" "), placeholder(db, 1)>>,
                <<tag_lower>>)
        scan == Statement("aliases",
                    <<Sql("SELECT "), Frag("select", "*"), Sql(" FROM "),
                      Frag("table", "tag_taxonomy")>>, <<>>)
        any == Statement("alias",
                    <<Sql("SELECT "), Frag("select", "*"), Sql(" FROM "),
                      Frag("table", "tag_taxonomy"), Sql(" WHERE "),
                      placeholder(db, 1),
                      Sql(" = ANY(LOWER(aliases::text)::text[])")>>,
                    <<tag_lower>>)
        first == fetchall(db, canonical)
        second == IF backend = SQLITE THEN scan ELSE any
        named == SelectSeq(tag_taxonomy,
                     LAMBDA r : \E i \in 1..Len(r.aliases) :
                                    LowerText(Strip(r.aliases[i])) = tag_lower)
        Found(row, was_alias, stmts) ==
            Answer([kind |-> "normalized", error |-> "", found |-> TRUE,
                    canonical_tag |-> row.canonical_tag,
                    was_alias |-> was_alias], stmts)
    IN  IF first.raised
        THEN Answer(RaisedOut("no such table: tag_taxonomy"), <<canonical>>)
        ELSE IF first.rows # <<>> THEN Found(first.rows[1], FALSE, <<canonical>>)
        ELSE IF Faulted(db, second)
        THEN Answer(RaisedOut("binding"), <<canonical, second>>)
        ELSE IF named # <<>> THEN Found(named[1], TRUE, <<canonical, second>>)
        ELSE Answer([kind |-> "normalized", error |-> "", found |-> FALSE,
                     canonical_tag |-> tag, was_alias |-> FALSE],
                    <<canonical, second>>)

\* a row of topic_index as INSERT INTO topic_index (topic_name, summary,
\* key_terms) leaves it
TopicRow(id, topic_name, summary, key_terms) ==
    [id |-> id, topic_name |-> topic_name, summary |-> summary,
     full_summary |-> None, key_terms |-> key_terms, entry_count |-> 0,
     last_curated |-> None]

\* the INSERT INTO topic_index on a database that has the table:
\* topic_name is unique
InsertTopic(b, stmt, rows, topic_name, summary, key_terms) ==
    IF Faulted(b, stmt)
    THEN [raised |-> IF TableExists(b, "topic_index") THEN "binding"
                     ELSE "no such table: topic_index",
          rows |-> rows, id |-> 0]
    ELSE IF \E k \in 1..Len(rows) : rows[k].topic_name = topic_name
    THEN [raised |-> "duplicate key value violates unique constraint",
          rows |-> rows, id |-> 0]
    ELSE [raised |-> "",
          rows |-> Append(rows, TopicRow(Len(rows) + 1, topic_name, summary,
                                         key_terms)),
          id |-> Len(rows) + 1]

\* server.py:1489-1526
create_topic(c, db, backend, rows) ==
    LET term_list == CommaList(c.key_terms)
        dialect == [kind |-> backend]
        insert ==
            IF backend = SQLITE
            THEN Statement("insert_topic",
                     <<Sql("INSERT INTO "), Frag("table", "topic_index"),
                       Sql(" (topic_name, summary, key_terms) VALUES (")>>
                       \o ValuesFrags(dialect, 3) \o <<Sql(")")>>,
                     <<c.topic_name, c.summary, JoinText(term_list)>>)
            ELSE Statement("insert_topic",
                     <<Sql("INSERT INTO "), Frag("table", "topic_index"),
                       Sql(" (topic_name, summary, key_terms) VALUES (")>>
                       \o ValuesFrags(dialect, 3)
                       \o <<Sql("::text[]) RETURNING id")>>,
                     <<c.topic_name, c.summary, term_list>>)
        rowid == Statement("last_insert_rowid",
                           <<Sql("SELECT last_insert_rowid() as id")>>, <<>>)
        done == InsertTopic(db, insert, rows, c.topic_name, c.summary, term_list)
        stmts == IF backend = SQLITE /\ done.raised = "" THEN <<insert, rowid>>
                 ELSE <<insert>>
    IN  IF done.raised = "duplicate key value violates unique constraint"
        THEN [out |-> ErrorOut("Topic already exists"), issued |-> stmts,
              rows |-> rows]
        ELSE IF done.raised # ""
        THEN [out |-> RaisedOut(done.raised), issued |-> stmts, rows |-> rows]
        ELSE [out |-> [kind |-> "topic_created", error |-> "", id |-> done.id,
                       topic_name |-> c.topic_name],
              issued |-> stmts, rows |-> done.rows]

\* a row of topic_entries; relevance_score is in hundredths
TopicEntryRow(id, topic_id, entry_table, entry_id, relevance_score) ==
    [id |-> id, topic_id |-> topic_id, entry_table |-> entry_table,
     entry_id |-> entry_id, relevance_score |-> relevance_score]

\* the topics after a row of topic_entries was stored for topic_id, on a
\* database that leaves entry_count alone
TopicsUncounted(topics, topic_id) == topics

\* the topics after a row of topic_entries was stored for topic_id:
\* entry_count is derived from the membership
TopicsCounted(topics, topic_id) ==
    [k \in 1..Len(topics) |->
        IF topics[k].id = topic_id
        THEN [topics[k] EXCEPT !.entry_count = @ + 1] ELSE topics[k]]

\* the INSERT INTO topic_entries on a database that has the table: an
\* entry belongs to a topic at most once, the entry must exist (the
\* messages are those that add_topic_entry looks for, server.py:1575-1578)
InsertTopicEntry(b, stmt, topics, entries, topic_id, entry_table, entry_id, relevance_score) ==
    IF Faulted(b, stmt)
    THEN [raised |-> IF TableExists(b, "topic_entries") THEN "binding"
                     ELSE "no such table: topic_entries",
          topics |-> topics, entries |-> entries, id |-> 0]
    ELSE IF \E k \in 1..Len(entries) :
                /\ entries[k].topic_id = topic_id
                /\ entries[k].entry_table = entry_table
                /\ entries[k].entry_id = entry_id
    THEN [raised |-> "duplicate key value violates unique constraint",
          topics |-> topics, entries |-> entries, id |-> 0]
    ELSE IF ~EntryExists(entry_table, entry_id)
    THEN [raised |-> "Invalid entry reference",
          topics |-> topics, entries |-> entries, id |-> 0]
    ELSE [raised |-> "",
          topics |-> TopicsCounted(topics, topic_id),
          entries |-> Append(entries,
                             TopicEntryRow(Len(entries) + 1, topic_id, entry_table,
                                           entry_id, relevance_score)),
          id |-> Len(entries) + 1]

\* server.py:1530-1580
add_topic_entry(c, db, backend, topics, entries) ==
    LET lo == IF c.relevance_score < 100 THEN c.relevance_score ELSE 100
        relevance_score == IF lo > 0 THEN lo ELSE 0
        dialect == [kind |-> backend]
        select ==
            Statement("topic_id",
                <<Sql("SELECT "), Frag("select", "id"), Sql(" FROM "),
                  Frag("table", "topic_index"), Sql(" WHERE "),
                  Frag("column", "topic_name"), Sql(" "), Frag("op", "="),
                  Sql(" "), placeholder(db, 1)>>,
                <<c.topic_name>>)
        topic == SelectSeq(topics, LAMBDA t : t.topic_name = c.topic_name)
        topic_id == topic[1].id
        insert ==
            Statement("insert_topic_entry",
                <<Sql("INSERT INTO "), Frag("table", "topic_entries"),
                  Sql(" (topic_id, entry_table, entry_id, relevance_score) VALUES (")>>
                  \o ValuesFrags(dialect, 4)
                  \o (IF backend = SQLITE THEN <<Sql(")")>>
                      ELSE <<Sql(") RETURNING id")>>),
                <<topic_id, c.entry_table, c.entry_id, relevance_score>>)
        done == InsertTopicEntry(db, insert, topics, entries, topic_id,
                                 c.entry_table, c.entry_id, relevance_score)
        Gives(o, stmts) ==
            [out |-> o, issued |-> stmts, topics |-> topics, entries |-> entries]
    IN  IF c.entry_table \notin ENTRY_TABLES
        THEN Gives(ErrorOut("Invalid entry_table"), <<>>)
        ELSE IF Faulted(db, select)
        THEN Gives(RaisedOut("no such table: topic_index"), <<select>>)
        ELSE IF topic = <<>>
        THEN Gives(ErrorOut("Topic not found"), <<select>>)
        ELSE IF done.raised = "duplicate key value violates unique constraint"
        THEN Gives(ErrorOut("This entry is already in the topic"), <<select, insert>>)
        ELSE IF done.raised = "Invalid entry reference"
        THEN Gives(ErrorOut("Invalid entry reference"), <<select, insert>>)
        ELSE IF done.raised # ""
        THEN Gives(RaisedOut(done.raised), <<select, insert>>)
        ELSE [out |-> [kind |-> "topic_entry", error |-> "", id |-> done.id,
                       topic_name |-> c.topic_name],
              issued |-> <<select, insert>>,
              topics |-> done.topics, entries |-> done.entries]

\* no task is inside a tool
NoTask == [tool |-> "none", at |-> "idle", args |-> <<>>, rowcount |-> 0, state |-> <<>>]

\* the tools as steps.  `await get_db()` finds the slot filled and returns
\* its instance (database.py:322-323).
ToolReady == _db # 0 /\ Ready(inst[_db]) /\ \A p \in Procs : pc[p] = "idle"

Called(tool, c) == [tool |-> tool, args |-> c]

\* sqlite3_last_insert_rowid() after an INSERT that took `before` to
\* `after`: the rowid of the new row; a failed INSERT and the PostgreSQL
\* connections leave it alone
LastRowid(b, before, after) ==
    IF b.kind = SQLITE /\ Len(after) > Len(before)
    THEN after[Len(after)].id ELSE last_insert_rowid

QueryTable(c) ==
    /\ ToolReady
    /\ LET a == query_table(c, inst[_db])
       IN  out' = a.out /\ issued' = a.issued
    /\ call' = Called("query_table", c)
    /\ UNCHANGED <<memories, restVars, last_insert_rowid, holderVars, valVars>>

SearchKnowledge(c) ==
    /\ ToolReady
    /\ LET a == search_knowledge(c, inst[_db], get_backend(env))
       IN  out' = a.out /\ issued' = a.issued
    /\ call' = Called("search_knowledge", c)
    /\ UNCHANGED <<memories, restVars, last_insert_rowid, holderVars, valVars>>

RecallTopic(c) ==
    /\ ToolReady
    /\ LET a == recall_topic(c, inst[_db], get_backend(env))
       IN  out' = a.out /\ issued' = a.issued
    /\ call' = Called("recall_topic", c)
    /\ UNCHANGED <<memories, restVars, last_insert_rowid, holderVars, valVars>>

ListTables ==
    /\ ToolReady
    /\ LET a == list_tables(inst[_db], get_backend(env))
       IN  out' = a.out /\ issued' = a.issued
    /\ call' = Called("list_tables", <<>>)
    /\ UNCHANGED <<memories, restVars, last_insert_rowid, holderVars, valVars>>

StoreMemory(c) ==
    /\ ToolReady
    /\ LET a == store_memory(c, inst[_db], get_backend(env), memories)
       IN  /\ out' = a.out /\ issued' = a.issued /\ memories' = a.rows
           /\ last_insert_rowid' = LastRowid(inst[_db], memories, a.rows)
    /\ call' = Called("store_memory", c)
    /\ UNCHANGED <<restVars, holderVars, valVars>>

\* no tool has been called and nothing is stored
UpdateMemory(c) ==
    /\ ToolReady
    /\ LET a == update_memory(c, inst[_db], get_backend(env), memories)
       IN  out' = a.out /\ issued' = a.issued /\ memories' = a.rows
    /\ call' = Called("update_memory", c)
    /\ UNCHANGED <<restVars, last_insert_rowid, holderVars, valVars>>

\* get_memory up to the end of its UPDATE (server.py:570-580); the task is
\* then suspended in `await` and other tasks may run
GetMemoryUpdate(p, key) ==
    /\ ToolReady
    /\ task[p].at = "idle"
    /\ LET done == UpdateMemories(inst[_db], get_memory_update(key, inst[_db]), memories)
       IN  /\ memories' = done.rows
           /\ IF done.raised
              THEN /\ out' = RaisedOut("no such table")
                   /\ call' = Called("get_memory", [key |-> key])
                   /\ issued' = <<get_memory_update(key, inst[_db])>>
                   /\ UNCHANGED task
              ELSE /\ task' = [task EXCEPT ![p] =
                                  [tool |-> "get_memory", at |-> "updated",
                                   args |-> [key |-> key],
                                   rowcount |-> done.rowcount, state |-> <<>>]]
                   /\ UNCHANGED <<call, issued, out>>
    /\ UNCHANGED <<agent_chat, relationships, curationVars, last_insert_rowid, holderVars, valVars>>

\* get_memory from its SELECT to its return (server.py:582-585)
GetMemorySelect(p) ==
    /\ ToolReady
    /\ task[p].tool = "get_memory" /\ task[p].at = "updated"
    /\ LET key == task[p].args.key
           select == get_memory_select(key, inst[_db])
           row == fetchall(inst[_db], select)
       IN  /\ out' = IF row.raised THEN RaisedOut("binding")
                     ELSE IF row.rows # <<>>
                     THEN [kind |-> "memory", error |-> "", memory |-> row.rows[1]]
                     ELSE ErrorOut("No memory with key")
           /\ issued' = <<get_memory_update(key, inst[_db]), select>>
           /\ call' = Called("get_memory", task[p].args)
    /\ task' = [task EXCEPT ![p] = [tool |-> "none", at |-> "idle",
                                    args |-> <<>>, rowcount |-> 0,
                                    state |-> <<>>]]
    /\ UNCHANGED <<memories, agent_chat, relationships, curationVars, last_insert_rowid, holderVars, valVars>>

\* the chat tools, each call one step: the rows a call reads are changed
\* by no other statement than its own
SendMessage(c) ==
    /\ ToolReady
    /\ LET a == send_message(c, inst[_db], agent_chat)
       IN  /\ out' = a.out /\ issued' = a.issued /\ agent_chat' = a.rows
           /\ last_insert_rowid' = LastRowid(inst[_db], agent_chat, a.rows)
    /\ call' = Called("send_message", c)
    /\ UNCHANGED <<memories, relationships, task, curationVars, holderVars, valVars>>

CheckMessages(c) ==
    /\ ToolReady
    /\ LET a == check_messages(c, inst[_db], agent_chat)
       IN  out' = a.out /\ issued' = a.issued /\ agent_chat' = a.rows
    /\ call' = Called("check_messages", c)
    /\ UNCHANGED <<memories, relationships, task, curationVars, last_insert_rowid, holderVars, valVars>>

ReplyMessage(c) ==
    /\ ToolReady
    /\ LET a == reply_message(c, inst[_db], agent_chat)
       IN  out' = a.out /\ issued' = a.issued /\ agent_chat' = a.rows
    /\ call' = Called("reply_message", c)
    /\ UNCHANGED <<memories, relationships, task, curationVars, last_insert_rowid, holderVars, valVars>>

\* check_messages up to the end of its SELECT (server.py:1021-1056); with
\* pending messages in the answer the task is suspended in the `await` of
\* the UPDATE, else the call returns
CheckMessagesSelect(p, c) ==
    /\ ToolReady
    /\ task[p].at = "idle"
    /\ LET a == check_messages(c, inst[_db], agent_chat)
           marks == Len(a.issued) = 2
       IN  IF marks
           THEN /\ task' = [task EXCEPT ![p] =
                               [tool |-> "check_messages", at |-> "selected",
                                args |-> c, rowcount |-> 0,
                                state |-> [select |-> a.issued[1],
                                           update |-> a.issued[2],
                                           out |-> a.out]]]
                /\ UNCHANGED <<call, issued, out>>
           ELSE /\ out' = a.out /\ issued' = a.issued
                /\ call' = Called("check_messages", c)
                /\ UNCHANGED task
    /\ UNCHANGED <<memories, agent_chat, relationships, curationVars,
                   last_insert_rowid, holderVars, valVars>>

\* check_messages from its UPDATE to its return (server.py:1058-1083): the
\* rows whose ids the SELECT gave as pending are set to 'read'
CheckMessagesMark(p) ==
    /\ ToolReady
    /\ task[p].tool = "check_messages" /\ task[p].at = "selected"
    /\ agent_chat' = MarkRead(agent_chat, task[p].state.update.args[1])
    /\ out' = task[p].state.out
    /\ issued' = <<task[p].state.select, task[p].state.update>>
    /\ call' = Called("check_messages", task[p].args)
    /\ task' = [task EXCEPT ![p] = NoTask]
    /\ UNCHANGED <<memories, relationships, curationVars, last_insert_rowid,
                   holderVars, valVars>>

\* an inserting tool on the embedded backend up to the return of its
\* INSERT (database.py:205-208): `own` is the rowid the INSERT gave its row
Inserted(tool, c, stmts, own) ==
    [tool |-> tool, at |-> "inserted", args |-> c, rowcount |-> 0,
     state |-> [insert |-> stmts[1], rowid |-> stmts[2], own |-> own]]

\* store_memory up to the return of its INSERT (server.py:619-631); a call
\* that stores nothing returns at once
StoreMemoryInsert(p, c) ==
    /\ ToolReady
    /\ task[p].at = "idle"
    /\ get_backend(env) = SQLITE
    /\ LET a == store_memory(c, inst[_db], get_backend(env), memories)
       IN  /\ memories' = a.rows
           /\ last_insert_rowid' = LastRowid(inst[_db], memories, a.rows)
           /\ IF a.out.kind = "stored"
              THEN /\ task' = [task EXCEPT ![p] =
                                  Inserted("store_memory", c, a.issued, a.out.id)]
                   /\ UNCHANGED <<call, issued, out>>
              ELSE /\ out' = a.out /\ issued' = a.issued
                   /\ call' = Called("store_memory", c)
                   /\ UNCHANGED task
    /\ UNCHANGED <<agent_chat, relationships, curationVars, holderVars, valVars>>

\* store_memory from its SELECT last_insert_rowid() to its return
\* (server.py:632-634, database.py:210-215)
StoreMemoryRowid(p) ==
    /\ ToolReady
    /\ task[p].tool = "store_memory" /\ task[p].at = "inserted"
    /\ out' = [kind |-> "stored", error |-> "", id |-> last_insert_rowid,
               key |-> task[p].args.key]
    /\ issued' = <<task[p].state.insert, task[p].state.rowid>>
    /\ call' = Called("store_memory", task[p].args)
    /\ task' = [task EXCEPT ![p] = NoTask]
    /\ UNCHANGED <<memories, agent_chat, relationships, curationVars,
                   last_insert_rowid, holderVars, valVars>>

\* the SELECT of send_message on the embedded backend (server.py:988)
ChatRowid ==
    Statement("last_insert_rowid", <<Sql("SELECT last_insert_rowid() as id")>>, <<>>)

\* send_message up to the return of its INSERT (server.py:969-987)
SendMessageInsert(p, c) ==
    /\ ToolReady
    /\ task[p].at = "idle"
    /\ get_backend(env) = SQLITE
    /\ LET a == send_message(c, inst[_db], agent_chat)
       IN  /\ agent_chat' = a.rows
           /\ last_insert_rowid' = LastRowid(inst[_db], agent_chat, a.rows)
           /\ IF a.out.kind = "sent"
              THEN /\ task' = [task EXCEPT ![p] =
                                  Inserted("send_message", c,
                                           <<a.issued[1], ChatRowid>>,
                                           a.out.message_id)]
                   /\ UNCHANGED <<call, issued, out>>
              ELSE /\ out' = a.out /\ issued' = a.issued
                   /\ call' = Called("send_message", c)
                   /\ UNCHANGED task
    /\ UNCHANGED <<memories, relationships, curationVars, holderVars, valVars>>

\* send_message from its SELECT last_insert_rowid() to its return
\* (server.py:988-998)
SendMessageRowid(p) ==
    /\ ToolReady
    /\ task[p].tool = "send_message" /\ task[p].at = "inserted"
    /\ out' = [kind |-> "sent", error |-> "", message_id |-> last_insert_rowid,
               to |-> task[p].args.to_agent,
               from |-> AgentOr(task[p].args.from_agent)]
    /\ issued' = <<task[p].state.insert, task[p].state.rowid>>
    /\ call' = Called("send_message", task[p].args)
    /\ task' = [task EXCEPT ![p] = NoTask]
    /\ UNCHANGED <<memories, agent_chat, relationships, curationVars,
                   last_insert_rowid, holderVars, valVars>>

AddRelationship(c) ==
    /\ ToolReady
    /\ LET a == add_relationship(c, inst[_db], relationships)
       IN  out' = a.out /\ issued' = a.issued /\ relationships' = a.rows
    /\ call' = Called("add_relationship", c)
    /\ UNCHANGED <<memories, agent_chat, task, curationVars, last_insert_rowid, holderVars, valVars>>

\* find_related up to its loop (server.py:1883-1913)
FindRelatedStart(p, c) ==
    /\ ToolReady
    /\ task[p].at = "idle"
    /\ call' = Called("find_related", c)
    /\ issued' = <<>>
    /\ IF c.entry_table \notin ENTRY_TABLES
       THEN out' = ErrorOut("Invalid entry_table") /\ UNCHANGED task
       ELSE /\ out' = NoOut
            /\ task' = [task EXCEPT ![p] =
                           [tool |-> "find_related", at |-> "expanding", args |-> c,
                            rowcount |-> 0, state |-> Traversal(c)]]
    /\ UNCHANGED <<memories, agent_chat, relationships, curationVars, last_insert_rowid, holderVars, valVars>>

\* find_related reads the relationships of the next entry of the level; the
\* task is suspended in `await` before and after
FindRelatedExpand(p) ==
    /\ ToolReady
    /\ task[p].tool = "find_related" /\ task[p].at = "expanding"
    /\ LET st == task[p].state
           e == Head(st.current_level)
           reads == <<GraphStatement("SELECT outgoing", <<e.table, e.id, st.type_filter>>),
                      GraphStatement("SELECT incoming", <<e.table, e.id, st.type_filter>>)>>
           next == Expanded(st, relationships)
       IN  IF ~TableExists(inst[_db], TableOf(reads[1]))
           THEN /\ out' = RaisedOut("no such table: relationships")
                /\ issued' = Append(issued, reads[1])
                /\ task' = [task EXCEPT ![p] = NoTask]
           ELSE /\ issued' = issued \o reads
                /\ IF next.done
                   THEN /\ out' = [kind |-> "related", error |-> "",
                                   source |-> Entry(task[p].args.entry_table,
                                                    task[p].args.entry_id),
                                   levels |-> next.st.levels,
                                   total_related |-> Cardinality(next.st.visited) - 1]
                        /\ task' = [task EXCEPT ![p] = NoTask]
                   ELSE /\ out' = out
                        /\ task' = [task EXCEPT ![p].state = next.st]
    /\ UNCHANGED <<call, memories, agent_chat, relationships, curationVars, last_insert_rowid, holderVars, valVars>>

RecallContext(c) ==
    /\ ToolReady
    /\ LET a == recall_context(c, inst[_db], get_backend(env))
       IN  out' = a.out /\ issued' = a.issued
    /\ call' = Called("recall_context", c)
    /\ UNCHANGED <<memories, restVars, last_insert_rowid, holderVars, valVars>>

\* database.py:266-293  PostgreSQLBackend.execute / fetchone / fetchall.
\* The block under asyncio.timeout(5) holds both the wait for a pooled
\* connection and the query on it; `elapsed` is the time since the block
\* was entered, `ran` the time the query has run.  Time passes in units.
ACQUIRE_TIMEOUT == 5

\* database.py:258  command_timeout of the pool's connections
COMMAND_TIMEOUT == 60

PoolExhausted == "Database connection pool exhausted, please retry"

\* a task calls execute(): it enters the timeout block and asks the pool
\* for a connection
ExecuteEnter(p) ==
    /\ ToolReady /\ inst[_db].kind = POSTGRESQL
    /\ task[p].at = "idle"
    /\ task' = [task EXCEPT ![p] =
                    [tool |-> "execute", at |-> "acquiring", args |-> <<>>,
                     rowcount |-> 0, state |-> [elapsed |-> 0, ran |-> 0]]]
    /\ UNCHANGED <<memories, agent_chat, relationships, curationVars, call,
                   issued, out, last_insert_rowid, holderVars, valVars>>

\* the pool hands out a connection: the query starts
ExecuteAcquired(p) ==
    /\ task[p].tool = "execute" /\ task[p].at = "acquiring"
    /\ task' = [task EXCEPT ![p].at = "running"]
    /\ UNCHANGED <<memories, agent_chat, relationships, curationVars, call,
                   issued, out, last_insert_rowid, holderVars, valVars>>

\* a unit of time passes for the task.  When the block has lasted
\* ACQUIRE_TIMEOUT, asyncio cancels what is inside it, the wait or the
\* query, and the except clause raises DatabaseError; a query that has run
\* for COMMAND_TIMEOUT is ended by asyncpg.
ExecuteTick(p) ==
    /\ task[p].tool = "execute"
    /\ LET st == task[p].state
           elapsed == st.elapsed + 1
           ran == IF task[p].at = "running" THEN st.ran + 1 ELSE st.ran
           ended == [acquired |-> task[p].at = "running", elapsed |-> elapsed,
                     ran |-> ran]
       IN  IF elapsed >= ACQUIRE_TIMEOUT
           THEN /\ out' = RaisedOut(PoolExhausted)
                /\ call' = Called("execute", ended)
                /\ task' = [task EXCEPT ![p] = NoTask]
           ELSE IF ran >= COMMAND_TIMEOUT
           THEN /\ out' = RaisedOut("QueryCanceledError")
                /\ call' = Called("execute", ended)
                /\ task' = [task EXCEPT ![p] = NoTask]
           ELSE /\ task' = [task EXCEPT ![p].state = [elapsed |-> elapsed, ran |-> ran]]
                /\ UNCHANGED <<call, out>>
    /\ UNCHANGED <<memories, agent_chat, relationships, curationVars, issued,
                   last_insert_rowid, holderVars, valVars>>

\* the query ends and execute() returns its status
ExecuteReturn(p) ==
    /\ task[p].tool = "execute" /\ task[p].at = "running"
    /\ out' = [kind |-> "executed", error |-> "", status |-> "OK"]
    /\ call' = Called("execute", [acquired |-> TRUE,
                                  elapsed |-> task[p].state.elapsed,
                                  ran |-> task[p].state.ran])
    /\ task' = [task EXCEPT ![p] = NoTask]
    /\ UNCHANGED <<memories, agent_chat, relationships, curationVars, issued,
                   last_insert_rowid, holderVars, valVars>>

\* the topic tools, each call one step
CreateTopic(c) ==
    /\ ToolReady
    /\ LET a == create_topic(c, inst[_db], get_backend(env), topic_index)
       IN  /\ out' = a.out /\ issued' = a.issued /\ topic_index' = a.rows
           /\ last_insert_rowid' = LastRowid(inst[_db], topic_index, a.rows)
    /\ call' = Called("create_topic", c)
    /\ UNCHANGED <<memories, agent_chat, relationships, task, tag_taxonomy,
                   topic_entries, holderVars, valVars>>

AddTopicEntry(c) ==
    /\ ToolReady
    /\ LET a == add_topic_entry(c, inst[_db], get_backend(env), topic_index,
                                topic_entries)
       IN  /\ out' = a.out /\ issued' = a.issued
           /\ topic_index' = a.topics /\ topic_entries' = a.entries
           /\ last_insert_rowid' = LastRowid(inst[_db], topic_entries, a.entries)
    /\ call' = Called("add_topic_entry", c)
    /\ UNCHANGED <<memories, agent_chat, relationships, task, tag_taxonomy,
                   holderVars, valVars>>

\* the taxonomy tools, each call one step
AddTagTaxonomy(c) ==
    /\ ToolReady
    /\ LET a == add_tag_taxonomy(c, inst[_db], get_backend(env), tag_taxonomy)
       IN  /\ out' = a.out /\ issued' = a.issued /\ tag_taxonomy' = a.rows
           /\ last_insert_rowid' = LastRowid(inst[_db], tag_taxonomy, a.rows)
    /\ call' = Called("add_tag_taxonomy", c)
    /\ UNCHANGED <<memories, agent_chat, relationships, task, topic_index,
                   topic_entries, holderVars, valVars>>

NormalizeTag(tag) ==
    /\ ToolReady
    /\ LET a == normalize_tag(tag, inst[_db], get_backend(env))
       IN  out' = a.out /\ issued' = a.issued
    /\ call' = Called("normalize_tag", [tag |-> tag])
    /\ UNCHANGED <<memories, restVars, last_insert_rowid, holderVars, valVars>>

ToolsIdle ==
    /\ memories = <<>>
    /\ agent_chat = <<>>
    /\ relationships = <<>>
    /\ tag_taxonomy = <<>> /\ topic_index = <<>> /\ topic_entries = <<>>
    /\ last_insert_rowid = 0
    /\ task = [p \in Procs |-> NoTask]
    /\ call = Called("none", <<>>)
    /\ issued = <<>>
    /\ out = NoOut

HolderInit(E) ==
    /\ env \in E
    /\ _db = 0
    /\ _db_lock = 0
    /\ inst = <<>>
    /\ pc = [p \in Procs |-> "idle"]
    /\ res = [p \in Procs |-> NoRes]
    /\ nOps = 0

\* the environments of the concurrency runs: SQLite by default, PostgreSQL
\* by PGHOST, PostgreSQL selected but not configured (with and without the
\* fallback flag)
HolderEnvs ==
    {e \in Envs : /\ e["DATABASE_URL"] = Unset
                  /\ e["PGPORT"] = Unset
                  /\ e["PGPASSWORD"] = "pw"
                  /\ e["WORKLOG_BACKEND"] \in {Unset, "postgresql"}
                  /\ e["WORKLOG_ALLOW_FALLBACK"] \in {Unset, "1"}}

\* concurrent callers of the holder
Init == HolderInit(HolderEnvs) /\ vIn = NoCall /\ vOut = NotCalled /\ ToolsIdle

Next == (\E p \in Procs : HolderStep(p)) /\ UNCHANGED <<valVars, toolVars>>

Spec == Init /\ [][Next]_vars

\* one caller, every environment
InitConfig == HolderInit(Envs) /\ vIn = NoCall /\ vOut = NotCalled /\ ToolsIdle

NextConfig == LoneStep(1) /\ UNCHANGED <<valVars, toolVars>>

\* the environment that sets none of the variables
DefaultEnv == CHOOSE e \in Envs : \A n \in DOMAIN e : e[n] = Unset

\* the validators, each applied to one text
InitValidate ==
    /\ HolderInit({DefaultEnv})
    /\ vIn \in ValidatorCalls
    /\ vOut = NotCalled
    /\ ToolsIdle

NextValidate ==
    (ValidateColumns \/ ValidateOrderBy) /\ UNCHANGED <<holderVars, toolVars>>

SpecValidate == InitValidate /\ [][NextValidate]_vars

SpecConfig == InitConfig /\ [][NextConfig]_vars

\* the environments of the tool runs: SQLite by default, PostgreSQL by
\* DATABASE_URL
PgEnv == [DefaultEnv EXCEPT !["DATABASE_URL"] = GoodUrl]

ToolEnvs == {DefaultEnv, PgEnv}

\* the state a first get_db() leaves: the backend of the environment is
\* connected and published
Connected(E) ==
    /\ env \in E
    /\ _db = 1
    /\ _db_lock = 0
    /\ inst = <<[SelectVariant(env).backend EXCEPT
                    !.conn = "open", !.schema = TRUE, !.connects = 1]>>
    /\ pc = [p \in Procs |-> "idle"]
    /\ res = [p \in Procs |->
                IF p = 1
                THEN [NoRes EXCEPT !.op = "get_db", !.kind = "returned",
                                   !.path = "init", !.val = 1,
                                   !.ready = TRUE, !.newest = 1]
                ELSE NoRes]
    /\ nOps = 1
    /\ vIn = NoCall /\ vOut = NotCalled

ToolInit(E) == Connected(E) /\ ToolsIdle

\* the characters of stored texts and search terms
Chars == {"a", "%", "_", "\\"}

SearchTexts == Texts(Chars, MaxTextLen)

\* query_table on a store of at most MaxRows memories
QueryStores ==
    [key : {<<"k1">>, <<"k2">>}, content : {<<"a">>}, summary : {None},
     memory_type : {"fact"}, importance : {5}, tags : {None}]

QueryCalls ==
    [table : {"memories", "evil"},
     columns : {<<"*">>, <<"id", ",", " ", "Key">>, <<"evil">>},
     filter_column : {None, <<"Key">>, <<"evil">>},
     filter_op : {<<"=">>, <<"like">>, <<"ILIKE">>, <<"evil">>},
     filter_value : {None, <<"k1">>, <<"%">>, <<"evil">>},
     order_by : {None, <<"Key", " ", "desc">>, <<"evil">>, <<" ">>},
     limit : {-1, 0, 1, 100, 101},
     offset : {-1, 0, 1}]

\* a read changes nothing that a later call reads: the runs stop at their
\* first read
NoReadYet == call.tool \in {"none", "store_memory"}

InitQuery == ToolInit(ToolEnvs)

NextQuery ==
    \/ NoReadYet /\ Len(memories) < MaxRows /\ \E c \in QueryStores : StoreMemory(c)
    \/ NoReadYet /\ \E c \in QueryCalls : QueryTable(c)
    \/ NoReadYet /\ ListTables

SpecQuery == InitQuery /\ [][NextQuery]_vars

\* one memory is stored, then searched for
SearchStores ==
    [key : {<<"k1">>}, content : SearchTexts, summary : {None},
     memory_type : {"fact", "evil"}, importance : {5}, tags : {None}]

SearchCalls ==
    [query : SearchTexts,
     tables : {None, <<"memories">>, <<"evil">>},
     limit : {10}]

TopicCalls ==
    [topic_name : SearchTexts, include_entries : {TRUE}, max_entries : {20}]

InitSearch == ToolInit(ToolEnvs)

NextSearch ==
    \/ NoReadYet /\ memories = <<>> /\ \E c \in SearchStores : StoreMemory(c)
    \/ NoReadYet /\ \E c \in SearchCalls : SearchKnowledge(c)
    \/ NoReadYet /\ \E c \in TopicCalls : RecallTopic(c)

SpecSearch == InitSearch /\ [][NextSearch]_vars

\* store_memory and update_memory in any order, on two keys
MemoryKeys == {<<"k1">>, <<"k2">>}

MemoryStores ==
    [key : MemoryKeys, content : {<<"a">>}, summary : {None},
     memory_type : {"fact", "evil"}, importance : {0, 11}, tags : {None}]

MemoryUpdates ==
    [key : MemoryKeys, content : {None}, summary : {None},
     importance : {<<>>, <<11>>}, tags : {None},
     status : {None, <<>>, <<"promoted">>, <<"evil">>}]

InitMemory == ToolInit(ToolEnvs)

NextMemory ==
    \/ \E c \in MemoryStores : StoreMemory(c)
    \/ \E c \in MemoryUpdates : UpdateMemory(c)

SpecMemory == InitMemory /\ [][NextMemory]_vars

\* get_memory by concurrent tasks on the embedded store, with stores and
\* updates between their statements; a memory is read at most MaxReads times
ReadStores ==
    [key : MemoryKeys, content : {<<"a">>}, summary : {None},
     memory_type : {"fact"}, importance : {5}, tags : {None}]

ReadUpdates ==
    [key : {<<"k1">>}, content : {<<"b">>}, summary : {None},
     importance : {<<>>}, tags : {None}, status : {None}]

ReadsLeft(key) ==
    \A k \in 1..Len(memories) :
        memories[k].key = key => memories[k].access_count < MaxReads

InitRead == ToolInit({DefaultEnv})

NextRead ==
    \/ \E c \in ReadStores : StoreMemory(c)
    \/ \E c \in ReadUpdates : UpdateMemory(c)
    \/ \E p \in Procs, key \in MemoryKeys : ReadsLeft(key) /\ GetMemoryUpdate(p, key)
    \/ \E p \in Procs : GetMemorySelect(p)

SpecRead == InitRead /\ [][NextRead]_vars

\* send_message, check_messages and reply_message in any order, at most
\* MaxMessages messages sent
ChatSends ==
    [to_agent : {"claude", "codex", "all", "evil"}, message : {<<"m">>},
     from_agent : {"", "codex"}, priority : {"normal", "evil"}]

ChatChecks == [agent : {"", "codex"}, include_read : BOOLEAN]

ChatReplies ==
    [message_id : 1..(MaxMessages + 1), response : {<<"r">>},
     from_agent : {"", "codex"}, resolve : BOOLEAN]

InitChat == ToolInit(ToolEnvs)

NextChat ==
    \/ Len(agent_chat) < MaxMessages /\ \E c \in ChatSends : SendMessage(c)
    \/ \E c \in ChatChecks : CheckMessages(c)
    \/ \E c \in ChatReplies : ReplyMessage(c)

SpecChat == InitChat /\ [][NextChat]_vars

\* store_memory and add_relationship in any order, at most MaxEdges
\* relationships added
RelateCalls ==
    [source_table : {"memories", "evil"}, source_id : {1, 2, 3},
     target_table : {"memories"}, target_id : {1, 2, 3},
     relationship_type : {"relates_to", "evil"}, confidence : {150},
     bidirectional : BOOLEAN]

InitRelate == ToolInit(ToolEnvs)

NextRelate ==
    \/ \E c \in ReadStores : StoreMemory(c)
    \/ Len(relationships) < MaxEdges /\ \E c \in RelateCalls : AddRelationship(c)

SpecRelate == InitRelate /\ [][NextRelate]_vars

\* find_related on the graphs over four memories whose relationships are
\* among those of EdgeChoices; the embedded store has no graph
RelatedMemories ==
    [i \in 1..4 |-> MemoryRow(i, <<"k" \o ToString(i)>>, <<"a">>, None, "fact", 5, None)]

Edge(s, t, type, bidirectional) ==
    [source_table |-> "memories", source_id |-> s, target_table |-> "memories",
     target_id |-> t, relationship_type |-> type, confidence |-> 100,
     bidirectional |-> bidirectional]

EdgeChoices ==
    <<Edge(1, 2, "relates_to", FALSE), Edge(2, 1, "relates_to", FALSE),
      Edge(2, 3, "relates_to", TRUE), Edge(3, 4, "relates_to", FALSE),
      Edge(4, 3, "supersedes", TRUE), Edge(1, 1, "relates_to", TRUE),
      Edge(4, 1, "relates_to", FALSE), Edge(1, 3, "supersedes", FALSE),
      Edge(3, 1, "supersedes", TRUE)>>

\* the rows that adding the chosen relationships in their order leaves
RECURSIVE GraphRows(_, _, _)
GraphRows(chosen, i, rows) ==
    IF i > Len(EdgeChoices) THEN rows
    ELSE IF i \in chosen
    THEN GraphRows(chosen, i + 1,
                   Append(rows, RelationshipRow(Len(rows) + 1, EdgeChoices[i], 100)))
    ELSE GraphRows(chosen, i + 1, rows)

Graphs == {GraphRows(chosen, 1, <<>>) : chosen \in SUBSET (1..Len(EdgeChoices))}

RelatedCalls ==
    [entry_table : {"memories", "evil"}, entry_id : {1, 4},
     depth : {0, 1, 2, 3, 4},
     relationship_types : {None, <<" ", "relates_to", ",">>}]

\* the graphs of the first six choices: the cycle 1 -> 2 -> 1, the
\* self-loop of 1, and the path on to 3 and 4
CycleGraphs == {GraphRows(chosen, 1, <<>>) : chosen \in SUBSET (1..6)}

InitGraphs(G) ==
    /\ Connected(ToolEnvs)
    /\ memories = RelatedMemories
    /\ agent_chat = <<>>
    /\ relationships \in (IF TableExists(inst[_db], "relationships") THEN G ELSE {<<>>})
    /\ tag_taxonomy = <<>> /\ topic_index = <<>> /\ topic_entries = <<>>
    /\ last_insert_rowid = 0
    /\ task = [p \in Procs |-> NoTask]
    /\ call = Called("none", <<>>)
    /\ issued = <<>>
    /\ out = NoOut

InitRelated == InitGraphs(Graphs)

NextRelated ==
    \/ call.tool = "none" /\ \E p \in Procs, c \in RelatedCalls : FindRelatedStart(p, c)
    \/ \E p \in Procs : FindRelatedExpand(p)

SpecRelated == InitRelated /\ [][NextRelated]_vars

\* the event loop resumes a task that waits for its rows
FairRelated ==
    /\ InitGraphs(CycleGraphs)
    /\ [][NextRelated]_vars
    /\ \A p \in Procs : WF_vars(FindRelatedExpand(p))

\* query_table on the same memories in the two backends: keys that differ
\* in case, contents that are LIKE wildcards
DialectStores ==
    [key : {<<"k1">>, <<"K1">>}, content : {<<"a">>, <<"%">>}, summary : {None},
     memory_type : {"fact"}, importance : {5}, tags : {None}]

DialectCalls ==
    [table : {"memories"},
     columns : {<<"*">>, <<"id", ",", " ", "Key">>},
     filter_column : {None, <<"Key">>, <<"content">>},
     filter_op : {<<"=">>, <<"<">>, <<"like">>, <<"ILIKE">>},
     filter_value : {None, <<"k1">>, <<"K1">>, <<"\\", "%">>},
     order_by : {None, <<"Key", " ", "desc">>},
     limit : {1, 100},
     offset : {0, 1}]

InitDialect == ToolInit(ToolEnvs)

NextDialect ==
    \/ NoReadYet /\ Len(memories) <= MaxRows /\ \E c \in DialectStores : StoreMemory(c)
    \/ NoReadYet /\ \E c \in DialectCalls : QueryTable(c)

SpecDialect == InitDialect /\ [][NextDialect]_vars

\* one check_messages call suspended between its SELECT and its UPDATE
\* while send_message and reply_message calls run
InboxSends ==
    [to_agent : {"claude", "all"}, message : {<<"m">>}, from_agent : {"codex"},
     priority : {"normal", "urgent"}]

InboxChecks == [agent : {"", "codex"}, include_read : BOOLEAN]

InboxReplies ==
    [message_id : 1..MaxMessages, response : {<<"r">>}, from_agent : {""},
     resolve : BOOLEAN]

InitInbox == ToolInit(ToolEnvs)

NextInbox ==
    \/ Len(agent_chat) < MaxMessages /\ \E c \in InboxSends : SendMessage(c)
    \/ (\A q \in Procs : task[q].at = "idle")
          /\ \E p \in Procs, c \in InboxChecks : CheckMessagesSelect(p, c)
    \/ \E p \in Procs : CheckMessagesMark(p)
    \/ \E c \in InboxReplies : ReplyMessage(c)

SpecInbox == InitInbox /\ [][NextInbox]_vars

\* the topic tools on at most MaxTopics topics with at most MaxMembers
\* memberships; the runs stop at their first recall_topic
TopicNames == {<<"a">>, <<"a", "a">>}

TopicCreates == [topic_name : TopicNames, summary : {None}, key_terms : {None}]

TopicAdds ==
    [topic_name : TopicNames \cup {<<"%">>}, entry_table : {"memories", "evil"},
     entry_id : {1, 2}, relevance_score : {-1, 50, 150}]

TopicRecalls ==
    [topic_name : TopicNames, include_entries : BOOLEAN, max_entries : {1, 20}]

NoRecallYet == call.tool # "recall_topic"

InitTopics == ToolInit(ToolEnvs)

NextTopics ==
    \/ NoRecallYet /\ Len(memories) <= MaxRows /\ Len(topic_index) = 0
          /\ \E c \in ReadStores : StoreMemory(c)
    \/ NoRecallYet /\ Len(topic_index) < MaxTopics
          /\ \E c \in TopicCreates : CreateTopic(c)
    \/ NoRecallYet /\ Len(topic_entries) < MaxMembers
          /\ \E c \in TopicAdds : AddTopicEntry(c)
    \/ NoRecallYet /\ \E c \in TopicRecalls : RecallTopic(c)

SpecTopics == InitTopics /\ [][NextTopics]_vars

\* the retrieval tools on a store of at most MaxRows memories
ContextStores ==
    [key : {<<"k1">>}, content : {<<"a">>, <<"%">>}, summary : {None},
     memory_type : {"fact", "entity"}, importance : {5}, tags : {None}]

ContextCalls ==
    [topic : SearchTexts,
     memory_types : {None, <<"fact", ",", " ", "entity">>, <<"evil">>},
     min_importance : {0, 5, 11},
     include_recent : BOOLEAN,
     limit : {1, 15}]

InitContext == ToolInit(ToolEnvs)

NextContext ==
    \/ NoReadYet /\ Len(memories) < MaxRows /\ \E c \in ContextStores : StoreMemory(c)
    \/ NoReadYet /\ \E c \in SearchCalls : SearchKnowledge(c)
    \/ NoReadYet /\ \E c \in ContextCalls : RecallContext(c)

SpecContext == InitContext /\ [][NextContext]_vars

\* concurrent statements on the PostgreSQL pool
InitPool == ToolInit({PgEnv})

NextPool ==
    \E p \in Procs :
        ExecuteEnter(p) \/ ExecuteAcquired(p) \/ ExecuteTick(p) \/ ExecuteReturn(p)

SpecPool == InitPool /\ [][NextPool]_vars

\* the taxonomy tools on a taxonomy of at most MaxTags tags
TagNames == {<<"key">>, <<"Key">>, <<"id">>}

TaxonomyCalls ==
    [canonical_tag : TagNames,
     aliases : {None, <<"key">>, <<"ID", ",", " ", "x">>},
     category : {None}, description : {None}]

InitTaxonomy == ToolInit(ToolEnvs)

NextTaxonomy ==
    \/ Len(tag_taxonomy) < MaxTags /\ call.tool # "normalize_tag"
          /\ \E c \in TaxonomyCalls : AddTagTaxonomy(c)
    \/ call.tool # "normalize_tag" /\ \E t \in TagNames \cup {<<" ", "ID">>, <<"x">>} : NormalizeTag(t)

SpecTaxonomy == InitTaxonomy /\ [][NextTaxonomy]_vars

\* PostgreSQL is selected and not configured, and the fallback is allowed:
\* get_db() publishes the embedded backend (database.py:337-345)
FallbackEnv ==
    [DefaultEnv EXCEPT !["WORKLOG_BACKEND"] = "postgresql",
                       !["WORKLOG_ALLOW_FALLBACK"] = "1"]

FallbackEnvs == ToolEnvs \cup {FallbackEnv}

InitFallback == ToolInit(FallbackEnvs)

\* store_memory chooses its dialect by get_backend(), query_table by the
\* instance that get_db() returned
NextFallback ==
    \/ NoReadYet /\ Len(memories) < MaxRows /\ \E c \in QueryStores : StoreMemory(c)
    \/ NoReadYet /\ \E c \in QueryCalls : QueryTable(c)

SpecFallback == InitFallback /\ [][NextFallback]_vars

\* the inserting tools of several tasks on the one connection of the
\* embedded backend
RowidSends ==
    [to_agent : {"claude", "evil"}, message : {<<"m">>}, from_agent : {"codex"},
     priority : {"normal"}]

InitRowid == ToolInit({DefaultEnv})

NextRowid ==
    \/ Len(memories) <= MaxRows
          /\ \E p \in Procs, c \in QueryStores : StoreMemoryInsert(p, c)
    \/ \E p \in Procs : StoreMemoryRowid(p)
    \/ Len(agent_chat) <= MaxMessages
          /\ \E p \in Procs, c \in RowidSends : SendMessageInsert(p, c)
    \/ \E p \in Procs : SendMessageRowid(p)

SpecRowid == InitRowid /\ [][NextRowid]_vars

----------------------------------------------------------------------------
(* The validators: claims C2, C3.  The texts are read here by positions,   *)
(* without the split and strip of the model.                               *)

\* the text without its leading and trailing blanks
Trimmed(t) ==
    LET ns == {i \in 1..Len(t) : t[i] # " "}
    IN  IF ns = {} THEN <<>> ELSE SubSeq(t, SetMin(ns), SetMax(ns))

\* the positions that bound the comma-separated tokens of s
CommaCuts(s) == {0} \cup {i \in 1..Len(s) : s[i] = ","} \cup {Len(s) + 1}

NthCut(s, k) ==
    CHOOSE c \in CommaCuts(s) : Cardinality({d \in CommaCuts(s) : d < c}) = k

\* the comma-separated tokens of s, each trimmed and lower-cased
NormTokens(s) ==
    [k \in 1..(Cardinality(CommaCuts(s)) - 1) |->
        Str(LowerText(Trimmed(SubSeq(s, NthCut(s, k - 1) + 1, NthCut(s, k) - 1))))]

ColumnsAnswered == vOut.done /\ vIn.fn = "columns"

HasIdPrefix(s) == Len(s) >= 2 /\ s[1] = "id" /\ s[2] = ","

AfterIdPrefix(s) == SubSeq(s, 3, Len(s))

OrderByAnswered == vOut.done /\ vIn.fn = "order_by"

Blanks(s) == {i \in 1..Len(s) : s[i] = " "}

\* the positions where a maximal run of non-blank atoms starts, and ends
WordStarts(s) == {i \in 1..Len(s) : s[i] # " " /\ (i = 1 \/ s[i - 1] = " ")}

WordEnds(s) == {i \in 1..Len(s) : s[i] # " " /\ (i = Len(s) \/ s[i + 1] = " ")}

WordCount(s) == Cardinality(WordStarts(s))

\* the spellings of a direction, and the keyword each stands for
DirSpellings == {"asc", "ASC", "desc", "DESC"}

DirKeyword(d) == IF d \in {"asc", "ASC"} THEN "ASC" ELSE "DESC"

\* C3: "<col> <dir>" is accepted if and only if col, lower-cased, is in the
\* table's whitelist and dir is ASC or DESC in any case, and the result is
\* the lower-cased col, a blank and the upper-cased dir; a bare whitelisted
\* column gives "<col> ASC"; more than two blank-separated tokens are
\* rejected; the empty string is accepted and gives no ordering.
C3_ValidateOrderBy ==
    OrderByAnswered =>
        LET s == vIn.text
            allowed == TABLE_COLUMNS(vIn.table)
        IN  /\ WordCount(s) = 2 =>
                  LET col == Str(LowerText(SubSeq(s, SetMin(WordStarts(s)), SetMin(WordEnds(s)))))
                      dir == Str(SubSeq(s, SetMax(WordStarts(s)), SetMax(WordEnds(s))))
                  IN  /\ ~vOut.raised
                      /\ vOut.valid <=> (col \in allowed /\ dir \in DirSpellings)
                      /\ vOut.valid => vOut.text = col \o " " \o DirKeyword(dir)
            /\ (Blanks(s) = {} /\ s # <<>> /\ Str(LowerText(s)) \in allowed) =>
                  vOut.valid /\ vOut.text = Str(LowerText(s)) \o " ASC"
            /\ WordCount(s) > 2 => ~vOut.valid /\ ~vOut.raised
            /\ s = <<>> => vOut.valid /\ vOut.text = ""

\* C3 witness: "Key desc" on memories is accepted as "key DESC".
C3_Witness ==
    /\ OrderByAnswered /\ vIn.text = <<"Key", " ", "desc">>
    /\ vIn.table = "memories"
    /\ vOut.valid /\ vOut.text = "key DESC"

----------------------------------------------------------------------------
(* The order_by validator on every text: claim C27 *)

\* C27: _validate_order_by answers every text, those made of blanks only
\* included, with a (valid, text) pair and raises nothing.
C27_OrderByNeverRaises == OrderByAnswered => ~vOut.raised

----------------------------------------------------------------------------
(* query_table: claims C1, C10 *)

QueryReached == call.tool = "query_table" /\ issued # <<>>

\* the words the code itself writes into a query_table statement
QueryKeywords ==
    {"SELECT ", "SELECT COUNT(*) as total", " FROM ", " WHERE ", " ", ", ",
     ") ", ")", "LOWER(", " ORDER BY ", " LIMIT ", " OFFSET ", "?", "$1"}

EightOperators == {"=", "!=", ">", "<", ">=", "<=", "LIKE", "ILIKE"}

\* what a fragment of the given role may be in a statement on table T
AllowedText(role, T) ==
    CASE role = "table" -> VALID_TABLES
      [] role = "select" -> TABLE_COLUMNS(T) \cup {"*"}
      [] role \in {"column", "order"} -> TABLE_COLUMNS(T)
      [] role = "op" -> EightOperators
      [] role = "direction" -> {"ASC", "DESC"}
      [] role \in {"limit", "offset"} -> {ToString(n) : n \in 0..100}
      [] OTHER -> QueryKeywords

\* the call that differs from c in its filter value only
WithValue(c, v) == [c EXCEPT !.filter_value = v]

\* C1: in every statement query_table gives to the backend, the table,
\* column, operator and ORDER BY positions hold only tokens of the
\* whitelists (VALID_TABLES, TABLE_COLUMNS of the table, the eight
\* operators, ASC/DESC) and everything else is text of the code itself;
\* the filter value is not in the text, which is the same for every other
\* filter value, and is passed as the one positional argument.
C1_OnlyWhitelistedSql ==
    QueryReached =>
        LET c == call.args
            filtered == ~Falsy(c.filter_column) /\ c.filter_value # None
        IN  \A k \in 1..Len(issued) :
                LET frags == issued[k].frags
                IN  /\ \A i \in 1..Len(frags) :
                          /\ frags[i].text \in AllowedText(frags[i].role, c.table)
                          /\ c.filter_value # None => frags[i].text # Str(c.filter_value)
                    /\ frags[CHOOSE i \in 1..Len(frags) : frags[i].role = "table"].text = c.table
                    /\ issued[k].args = IF filtered THEN <<c.filter_value>> ELSE <<>>
                    /\ filtered <=> (\E i \in 1..Len(frags) : frags[i].role = "placeholder")
                    /\ \A v \in {<<"k1">>, <<"%">>, <<"evil">>} :
                          c.filter_value # None =>
                              SqlText(query_table(WithValue(c, v), inst[_db]).issued[k].frags)
                                  = SqlText(frags)

\* C1 witness: a filtered, ordered query on two columns, with a filter
\* value that is no whitelisted token, has been answered with rows.
C1_Witness ==
    /\ QueryReached /\ out.kind = "rows" /\ Len(issued) = 2
    /\ call.args.filter_column = <<"Key">> /\ call.args.filter_op = <<"like">>
    /\ call.args.filter_value = <<"evil">>
    /\ call.args.columns = <<"id", ",", " ", "Key">>
    /\ call.args.order_by = <<"Key", " ", "desc">>

\* C10: the LIMIT of the issued query and the limit of the result are in
\* [1,100], the OFFSET and the offset of the result are not negative.
C10_LimitInRange ==
    (call.tool = "query_table" /\ out.kind = "rows") =>
        /\ out.limit \in 1..100 /\ out.offset >= 0
        /\ \A k \in 1..Len(issued) : \A i \in 1..Len(issued[k].frags) :
              LET f == issued[k].frags[i]
              IN  /\ f.role = "limit" => f.n \in 1..100
                  /\ f.role = "offset" => f.n >= 0

\* an order_by that is neither absent nor `column` nor `column ASC/DESC`
\* with a whitelisted column
InvalidOrderBy(s, T) ==
    /\ ~Falsy(s)
    /\ ~(/\ WordCount(s) \in {1, 2}
         /\ Str(LowerText(SubSeq(s, SetMin(WordStarts(s)), SetMin(WordEnds(s)))))
                \in TABLE_COLUMNS(T)
         /\ WordCount(s) = 2 =>
                Str(SubSeq(s, SetMax(WordStarts(s)), SetMax(WordEnds(s)))) \in DirSpellings)

\* a column specification with a token outside the whitelist
InvalidColumns(s, T) ==
    Trimmed(s) # <<"*">> /\ \E t \in Range(NormTokens(s)) : t \notin TABLE_COLUMNS(T)

\* C11: a query_table call with a table outside VALID_TABLES, a column
\* outside the whitelist, an invalid order_by, a filter column outside the
\* whitelist or a filter operator outside the eight returns a result with
\* the key "error" and gives no statement to the backend.
C11_InvalidRejected ==
    call.tool = "query_table" =>
        LET c == call.args
        IN  (\/ c.table \notin VALID_TABLES
             \/ InvalidColumns(c.columns, c.table)
             \/ InvalidOrderBy(c.order_by, c.table)
             \/ (~Falsy(c.filter_column)
                    /\ Str(LowerText(c.filter_column)) \notin TABLE_COLUMNS(c.table))
             \/ Str(UpperText(c.filter_op)) \notin EightOperators)
                => out.kind = "error" /\ issued = <<>>

\* the tables the persisted schema is said to have
PersistedSchema ==
    {"memories", "knowledge_base", "entries", "research", "agent_chat",
     "error_patterns", "tag_taxonomy", "relationships", "topic_index",
     "topic_entries", "duplicate_candidates", "promotion_history",
     "curation_history"}

Counted == {out.tables[i].name : i \in 1..Len(out.tables)}

\* C12: on an embedded store that connect() has set up, every table of the
\* persisted schema exists, and list_tables returns a row count for every
\* table named in config.TABLES without failing.
C12_SchemaComplete ==
    (call.tool = "list_tables" /\ inst[_db].kind = SQLITE) =>
        /\ \A t \in PersistedSchema : TableExists(inst[_db], t)
        /\ out.kind = "tables"
        /\ Counted = {TABLES[i] : i \in 1..Len(TABLES)}

----------------------------------------------------------------------------
(* The memory tools: claims C13 - C15 *)

HasKey(rows, key) == \E k \in 1..Len(rows) : rows[k].key = key

\* C13: a store_memory call whose key is already stored returns an error
\* result, not an exception, and leaves every row as it was; a call with a
\* valid memory_type whose key is not stored yet succeeds; after any
\* sequence of calls no two rows have the same key.
C13_DuplicateKey ==
    [][/\ \A c \in MemoryStores :
            StoreMemory(c) =>
                /\ HasKey(memories, c.key) =>
                        out'.kind = "error" /\ memories' = memories
                /\ (~HasKey(memories, c.key) /\ c.memory_type \in MEMORY_TYPES) =>
                        out'.kind = "stored" /\ HasKey(memories', c.key)
       /\ \A i, j \in 1..Len(memories') :
            memories'[i].key = memories'[j].key => i = j]_vars

\* a second store_memory of a stored key, asking for another importance,
\* has been answered
C13_Witness ==
    /\ call.tool = "store_memory"
    /\ out.kind = "error" /\ out.error = "Memory already exists"
    /\ \E k \in 1..Len(memories) :
        /\ memories[k].key = call.args.key
        /\ memories[k].importance = 10
        /\ call.args.importance = 0

\* C14: after any sequence of store_memory and update_memory calls every
\* stored memory has its importance in 1..10, its memory_type among the
\* four types and its status among staging, promoted and archived.
C14_MemoryFieldsInRange ==
    \A k \in 1..Len(memories) :
        /\ memories[k].importance \in 1..10
        /\ memories[k].memory_type \in MEMORY_TYPES
        /\ memories[k].status \in MEMORY_STATUSES

\* the row of a key
RowOf(rows, key) == rows[CHOOSE k \in 1..Len(rows) : rows[k].key = key]

\* the rows differ at most in the columns named
SameBut(r1, r2, cols) == \A c \in DOMAIN r1 \ cols : r1[c] = r2[c]

\* C15: the UPDATE of get_memory(key) adds exactly 1 to the access_count of
\* the memory of that key and changes nothing else but its last_accessed;
\* for a key that is not stored it changes no row, and the call returns an
\* error result if the key is still not stored when it reads; a call whose
\* UPDATE found the memory returns it, with access_count 1 if that was its
\* only read; no step of any task removes a memory or lowers its
\* access_count.
C15_AccessCount ==
    [][/\ \A p \in Procs, key \in MemoryKeys :
            GetMemoryUpdate(p, key) =>
                /\ Len(memories') = Len(memories)
                /\ \A k \in 1..Len(memories) :
                     IF memories[k].key = key
                     THEN /\ memories'[k].access_count = memories[k].access_count + 1
                          /\ SameBut(memories'[k], memories[k],
                                     {"access_count", "last_accessed"})
                     ELSE memories'[k] = memories[k]
       /\ \A p \in Procs :
            GetMemorySelect(p) =>
                /\ memories' = memories
                /\ ~HasKey(memories, task[p].args.key) => out'.kind = "error"
                /\ task[p].rowcount = 1 =>
                     /\ out'.kind = "memory"
                     /\ out'.memory = RowOf(memories, task[p].args.key)
                     /\ out'.memory.access_count >= 1
       /\ \A k \in 1..Len(memories) :
            /\ k <= Len(memories')
            /\ memories'[k].key = memories[k].key
            /\ memories'[k].access_count >= memories[k].access_count]_vars

\* two tasks have read the same memory, their statements interleaved, and a
\* second memory has not been read
C15_Witness ==
    /\ call.tool = "get_memory"
    /\ out.kind = "memory" /\ out.memory.access_count = 2
    /\ \E p \in Procs : task[p].at = "updated" /\ task[p].args.key = call.args.key
    /\ \E k \in 1..Len(memories) :
        memories[k].key # call.args.key /\ memories[k].access_count = 0

----------------------------------------------------------------------------
(* The chat tools: claims C16, C17 *)

\* pending < read < replied < resolved
StatusRank(status) ==
    CASE status = "pending" -> 0
      [] status = "read" -> 1
      [] status = "replied" -> 2
      [] status = "resolved" -> 3

\* C16: over any sequence of send_message, check_messages and reply_message
\* calls no message is deleted and the status of a message never moves
\* backward in the order pending < read < replied < resolved.
C16_StatusForward ==
    [][\A k \in 1..Len(agent_chat) :
        /\ k <= Len(agent_chat')
        /\ agent_chat'[k].id = agent_chat[k].id
        /\ StatusRank(agent_chat'[k].status) >= StatusRank(agent_chat[k].status)]_vars

\* the agent is addressed by the message and did not send it
Recipient(m, agent) ==
    (m.to_agent = agent \/ m.to_agent = "all") /\ m.from_agent # agent

\* C17: a message goes from pending to read only in a check_messages call
\* of an agent that the message addresses and that did not send it; it goes
\* to replied or resolved only in a reply_message call of its recipient; a
\* reply_message call of any other agent, its sender included, leaves the
\* message as it was.
C17_OnlyRecipient ==
    [][\A k \in 1..Len(agent_chat) :
        LET m == agent_chat[k]
            n == agent_chat'[k]
        IN  /\ (m.status = "pending" /\ n.status = "read") =>
                    \E c \in ChatChecks :
                        CheckMessages(c) /\ Recipient(m, AgentOr(c.agent))
            /\ (n.status \in {"replied", "resolved"} /\ n # m) =>
                    \E c \in ChatReplies :
                        /\ ReplyMessage(c) /\ c.message_id = m.id
                        /\ Recipient(m, AgentOr(c.from_agent))
            /\ \A c \in ChatReplies :
                    (ReplyMessage(c) /\ ~Recipient(m, AgentOr(c.from_agent)))
                        => n = m]_vars

----------------------------------------------------------------------------
(* The relationship graph: claims C18 - C20 *)

\* the relationship types that a comma-separated text names
NamedTypes(s) ==
    IF Falsy(s) THEN {}
    ELSE {Str(Trimmed(SubSeq(s, NthCut(s, k - 1) + 1, NthCut(s, k) - 1))) :
            k \in 1..(Cardinality(CommaCuts(s)) - 1)} \ {""}

\* the row can be followed under the filter of the call
Followed(r, types) == types = {} \/ r.relationship_type \in types

\* the entries one hop from e: along a row from e, or against a
\* bidirectional row to e
Hop(e, types) ==
    {Entry(relationships[k].target_table, relationships[k].target_id) :
        k \in {j \in 1..Len(relationships) :
                 /\ Followed(relationships[j], types)
                 /\ Entry(relationships[j].source_table, relationships[j].source_id) = e}}
    \cup
    {Entry(relationships[k].source_table, relationships[k].source_id) :
        k \in {j \in 1..Len(relationships) :
                 /\ Followed(relationships[j], types)
                 /\ relationships[j].bidirectional
                 /\ Entry(relationships[j].target_table, relationships[j].target_id) = e}}

\* the entries at most k hops from e
RECURSIVE Within(_, _, _)
Within(e, k, types) ==
    IF k = 0 THEN {e}
    ELSE Within(e, k - 1, types)
             \cup UNION {Hop(x, types) : x \in Within(e, k - 1, types)}

\* the entries whose shortest path from e has k hops
AtDistance(e, k, types) == Within(e, k, types) \ Within(e, k - 1, types)

\* the entries that the result lists at level k
Listed(k) ==
    UNION {{Entry(out.levels[i].entries[j].table, out.levels[i].entries[j].id) :
                j \in 1..Len(out.levels[i].entries)} :
            i \in {n \in 1..Len(out.levels) : out.levels[n].level = k}}

RECURSIVE ListedCount(_)
ListedCount(i) ==
    IF i = 0 THEN 0 ELSE Len(out.levels[i].entries) + ListedCount(i - 1)

ClampedDepth(d) == IF d < 1 THEN 1 ELSE IF d > 3 THEN 3 ELSE d

\* C18: the result of find_related lists at each level k up to the clamped
\* depth exactly the entries whose shortest path from the source has k
\* hops, a relationship being followed from source to target always, from
\* target to source only if it is bidirectional, and only if its type is
\* one of relationship_types when types are given; it lists nothing at
\* deeper levels, no entry twice, and never the source.
C18_LevelsAreDistances ==
    (call.tool = "find_related" /\ out.kind = "related") =>
        LET c == call.args
            source == Entry(c.entry_table, c.entry_id)
            types == NamedTypes(c.relationship_types)
        IN  /\ \A k \in 1..4 :
                 Listed(k) = IF k <= ClampedDepth(c.depth)
                             THEN AtDistance(source, k, types) ELSE {}
            /\ \A i \in 1..Len(out.levels) : out.levels[i].level \in 1..ClampedDepth(c.depth)
            /\ ListedCount(Len(out.levels)) = Cardinality(UNION {Listed(k) : k \in 1..4})
            /\ source \notin UNION {Listed(k) : k \in 1..4}

\* three levels have been listed, one of them reached against a
\* bidirectional relationship
C18_Witness ==
    /\ call.tool = "find_related" /\ out.kind = "related"
    /\ Len(out.levels) = 3
    /\ \E j \in 1..Len(out.levels[3].entries) :
            out.levels[3].entries[j].direction = "incoming"
    /\ Listed(1) # {} /\ Listed(2) # {} /\ Listed(3) # {}

HasEdge(s, t) ==
    \E k \in 1..Len(relationships) :
        relationships[k].source_id = s /\ relationships[k].target_id = t

\* the entries whose relationships the call has read so far, in order
ExpandedEntries ==
    LET reads == SelectSeq(issued, LAMBDA q : q.id = "SELECT outgoing")
    IN  [i \in 1..Len(reads) |-> Entry(reads[i].args[1], reads[i].args[2])]

\* C19: a find_related call ends, whatever cycles the graph has and
\* whatever depth is asked; it reads the relationships of no entry twice
\* and expands no level beyond the third.
C19_Terminates ==
    /\ [](call.tool = "find_related" =>
            /\ \A i, j \in 1..Len(ExpandedEntries) :
                    ExpandedEntries[i] = ExpandedEntries[j] => i = j
            /\ \A p \in Procs : task[p].tool = "find_related" => task[p].state.level <= 3
            /\ out.kind = "related" => Len(out.levels) <= 3)
    /\ \A p \in Procs : (task[p].tool = "find_related") ~> (task[p].tool = "none")

\* a call with depth 4 has ended on a graph with the cycle 1 -> 2 -> 1 and
\* a self-loop, three levels listed
C19_Witness ==
    /\ call.tool = "find_related" /\ out.kind = "related"
    /\ call.args.depth = 4
    /\ HasEdge(1, 2) /\ HasEdge(2, 1) /\ HasEdge(1, 1)
    /\ Len(out.levels) = 3
    /\ \A p \in Procs : task[p].tool = "none"

\* C20: an add_relationship call that repeats a stored source, target and
\* type, that names a source or target entry that does not exist, or that
\* names an invalid table or relationship type returns an error result and
\* adds no row; after any sequence of calls no two relationships have the
\* same source, target and type and every relationship joins stored entries.
C20_RelationshipsSound ==
    [][/\ \A c \in RelateCalls :
            (/\ AddRelationship(c)
             /\ \/ \E k \in 1..Len(relationships) : SameEdge(relationships[k], c)
                \/ c.source_table \notin ENTRY_TABLES
                \/ c.target_table \notin ENTRY_TABLES
                \/ c.relationship_type \notin RELATIONSHIP_TYPES
                \/ ~EntryExists(c.source_table, c.source_id)
                \/ ~EntryExists(c.target_table, c.target_id))
                => out'.kind = "error" /\ relationships' = relationships
       /\ \A i, j \in 1..Len(relationships') :
            SameEdge(relationships'[i], relationships'[j]) => i = j
       /\ \A i \in 1..Len(relationships') :
            /\ EntryExists(relationships'[i].source_table, relationships'[i].source_id)
            /\ EntryExists(relationships'[i].target_table, relationships'[i].target_id)]_vars

----------------------------------------------------------------------------
(* The two dialects: claim C22 *)

\* the backend of the other variant, connected to the same tables
Twin(b) == [b EXCEPT !.kind = IF @ = SQLITE THEN POSTGRESQL ELSE SQLITE]

\* C22: on the same table contents and the same query_table arguments the
\* embedded and the networked backend return the same set of rows and the
\* same total.
C22_DialectEquivalence ==
    call.tool = "query_table" /\ out.kind = "rows"
        => LET twin == query_table(call.args, Twin(inst[_db])).out
           IN  /\ twin.kind = "rows"
               /\ Range(twin.rows) = Range(out.rows)
               /\ twin.total = out.total

----------------------------------------------------------------------------
(* The pool: claim C23 *)

\* C23: no task waits for a pooled connection beyond the acquisition
\* budget, and the pool-exhaustion error is raised only for a statement
\* that was still waiting for its connection: a statement that got its
\* connection within the budget is never reported as pool exhaustion.
C23_PoolExhaustion ==
    /\ \A p \in Procs :
          task[p].tool = "execute" /\ task[p].at = "acquiring"
              => task[p].state.elapsed < ACQUIRE_TIMEOUT
    /\ call.tool = "execute" /\ out.kind = "raised" /\ out.error = PoolExhausted
          => ~call.args.acquired

----------------------------------------------------------------------------
(* Placeholders and arguments: claim C24 *)

\* C24: the arguments of every statement that a tool gives to the backend
\* fit the placeholders of its text: as many arguments as `?` on the
\* embedded backend, arguments for exactly the ordinals $1..$n on the
\* networked one.
C24_ArgumentsFit ==
    \A i \in 1..Len(issued) : ~BindingFault(inst[_db], issued[i])

----------------------------------------------------------------------------
(* The id an inserting tool returns: claim C30 *)

\* C30: on the embedded backend the id that store_memory and send_message
\* return is the id of the row that the call itself inserted, whatever
\* other inserting calls ran on the connection between its INSERT and its
\* SELECT last_insert_rowid().
C30_OwnRowId ==
    [][\A p \in Procs :
          /\ StoreMemoryRowid(p) => out'.id = task[p].state.own
          /\ SendMessageRowid(p) => out'.message_id = task[p].state.own]_vars

----------------------------------------------------------------------------
(* get_db() when connect() raises: claim C29 *)

\* C29: when connect() raises inside get_db() the slot is left empty, and
\* no get_db() returns through the fast path an instance whose connect()
\* has failed.
C29_FailedConnectClearsSlot ==
    [][\A p \in Procs :
          /\ ConnectFail(p) => _db' = 0
          /\ (GetDbFast(p) /\ _db_lock = 0) => Ready(inst[_db])]_vars

----------------------------------------------------------------------------
(* The dialect of a handler and the live backend: claim C28 *)

\* the texts of the placeholders of a statement
PlaceholderTexts(stmt) ==
    {stmt.frags[i].text : i \in PlaceholdersOf(stmt.frags)}

\* C28: the dialect of every statement a tool handler gives to the
\* backend is that of the live instance that get_db() returned: `?` for
\* the embedded backend and `$N` for PostgreSQL, also after get_db() has
\* fallen back to the embedded backend.
C28_DialectOfLiveBackend ==
    \A i \in 1..Len(issued) :
        \A text \in PlaceholderTexts(issued[i]) :
            text = "?" <=> inst[_db].kind = SQLITE

----------------------------------------------------------------------------
(* The topics: claim C26 *)

\* the rows of topic_entries that belong to the topic
MembersOf(topic_id) ==
    SelectSeq(topic_entries, LAMBDA te : te.topic_id = topic_id)

----------------------------------------------------------------------------
(* check_messages against reply_message: claim C25 *)

\* C25: the mark-as-read of check_messages changes only messages that are
\* pending at the moment of its UPDATE: a message that reply_message has
\* set to replied or resolved since the SELECT keeps that status.
C25_MarkOnlyPending ==
    [][\A p \in Procs :
          CheckMessagesMark(p)
              => \A k \in 1..Len(agent_chat) :
                    agent_chat[k].status # "pending"
                        => agent_chat'[k].status = agent_chat[k].status]_vars

----------------------------------------------------------------------------
(* The taxonomy: claim C21 *)

\* two entries whose canonical tags differ in case at most
CaseTwins(rows) ==
    \E i, j \in 1..Len(rows) :
        i # j /\ LowerText(rows[i].canonical_tag) = LowerText(rows[j].canonical_tag)

\* an alias of one entry is the canonical tag of another
AliasOfOther(rows) ==
    \E i, j \in 1..Len(rows) :
        i # j /\ \E k \in 1..Len(rows[i].aliases) :
                    rows[i].aliases[k] = rows[j].canonical_tag

\* the taxonomy with the entry of call c added
WithTag(rows, c) ==
    Append(rows, TagRow(Len(rows) + 1, c.canonical_tag, CommaList(c.aliases),
                        c.category, c.description))

\* C21: after any sequence of add_tag_taxonomy calls no two canonical tags
\* differ only in case and no alias of an entry is the canonical tag of
\* another entry; a call whose entry would break either condition returns
\* an error result and adds no row.
C21_TaxonomySound ==
    [][/\ \A c \in TaxonomyCalls :
            (/\ AddTagTaxonomy(c)
             /\ \/ CaseTwins(WithTag(tag_taxonomy, c))
                \/ AliasOfOther(WithTag(tag_taxonomy, c)))
                => out'.kind = "error" /\ tag_taxonomy' = tag_taxonomy
       /\ ~CaseTwins(tag_taxonomy')
       /\ ~AliasOfOther(tag_taxonomy')]_vars

----------------------------------------------------------------------------
(* The wildcard escaper: claims C8, C9 *)

\* t is a run of consecutive characters of s
Contains(s, t) ==
    \E i \in 0..(Len(s) - Len(t)) : SubSeq(s, i + 1, i + Len(t)) = t

\* the texts a search reads in a memory
SearchedTexts(m) == {m[c] : c \in {"content", "summary", "key", "tags"}} \ {None}

\* C8: search_knowledge returns a stored memory if and only if one of its
\* searched columns contains the term literally, whatever %, _ and
\* backslash the term holds, on either backend.
C8_LiteralMatch ==
    (call.tool = "search_knowledge" /\ out.kind = "results"
        /\ "memories" \in DOMAIN out.results) =>
        \A i \in 1..Len(memories) :
            (\E r \in Range(out.results["memories"]) : r.id = memories[i].id)
                <=> (\E t \in SearchedTexts(memories[i]) :
                        Contains(LowerText(t), LowerText(call.args.query)))

\* the value the caller gave for the comparison
CallerValue ==
    CASE call.tool = "query_table" -> call.args.filter_value
      [] call.tool = "search_knowledge" -> call.args.query
      [] call.tool = "recall_topic" -> call.args.topic_name
      [] OTHER -> None

\* C9: every value bound to a LIKE or ILIKE comparison of an issued
\* statement is the caller's value as the wildcard escaper returns it.
C9_LikeValuesEscaped ==
    \A k \in 1..Len(issued) :
        \A i \in ComparisonsOf(issued[k].frags) :
            issued[k].frags[i].text \in {"LIKE", "ILIKE"} =>
                BoundValue(inst[_db], issued[k], PlaceholderAfter(issued[k].frags, i))
                    = _escape_search_wildcards(CallerValue)

----------------------------------------------------------------------------
(* The holder: claims C4 - C7 *)

Live == {i \in 1..Len(inst) : i = _db \/ inst[i].conn # "none"}

GetDbReturned(p) == res[p].op = "get_db" /\ res[p].kind = "returned"

\* C4: under any interleaving of get_db() calls (with close_db() calls among
\* them) at most one backend instance is live at any time; an instance is
\* constructed, and its connect() called, once; and every get_db() that
\* returns gives the one instance constructed last, so callers that race on
\* an empty slot all get the same instance.
C4_SingleInstance ==
    /\ Cardinality(Live) <= 1
    /\ \A i \in 1..Len(inst) : inst[i].connects = 1
    /\ \A p \in Procs : GetDbReturned(p) =>
          res[p].val # 0 /\ res[p].val = res[p].newest
    /\ \A p, q \in Procs :
          (GetDbReturned(p) /\ GetDbReturned(q) /\ res[p].newest = res[q].newest)
            => res[p].val = res[q].val

\* C4 witness: two callers raced on the empty slot; one initialised the
\* backend, the other waited for the lock and found the slot filled by the
\* second check, and both hold the same instance.
C4_Witness ==
    \E p, q \in Procs :
        /\ GetDbReturned(p) /\ res[p].path = "init"
        /\ GetDbReturned(q) /\ res[q].path = "recheck"
        /\ res[p].val = res[q].val /\ Len(inst) = 1

\* C5: no get_db() call returns a backend whose connect() has not finished.
C5_ReturnedAfterConnect ==
    \A p \in Procs : GetDbReturned(p) => res[p].ready

\* the flag values that read 1/true/yes whatever their case
FallbackFlagOn == {"1", "true", "TRUE", "True", "yes", "YES", "Yes"}

PostgresMisconfigured ==
    get_backend(env) = POSTGRESQL /\ ~get_postgresql_params(env).ok

FallbackHint ==
    " Set WORKLOG_ALLOW_FALLBACK=1 to allow SQLite fallback, or fix PostgreSQL configuration."

\* C6 as stated: PostgreSQL selected and its parameters fail: an Embedded
\* backend is returned only if WORKLOG_ALLOW_FALLBACK is one of 1/true/yes;
\* otherwise the configuration error is propagated unchanged, no backend is
\* created and the slot stays empty.
C6_AsStated ==
    \A p \in Procs :
        (PostgresMisconfigured /\ res[p].op = "get_db") =>
            /\ res[p].kind = "returned" =>
                  env.WORKLOG_ALLOW_FALLBACK \in {"1", "true", "yes"}
            /\ env.WORKLOG_ALLOW_FALLBACK \notin {"1", "true", "yes"} =>
                  /\ res[p].kind = "raised"
                  /\ res[p].err = get_postgresql_params(env).err
                  /\ inst = <<>> /\ _db = 0

\* C6 amended: PostgreSQL selected and its parameters fail: get_db()
\* constructs an Embedded backend if and only if WORKLOG_ALLOW_FALLBACK reads
\* 1/true/yes in any letter case; otherwise it raises a new ValueError whose
\* message is the original message between the prefix "PostgreSQL
\* configuration error: " and a hint about WORKLOG_ALLOW_FALLBACK, creates no
\* backend and leaves the slot empty.
C6_Fallback ==
    \A p \in Procs :
        (PostgresMisconfigured /\ res[p].op = "get_db") =>
            IF env.WORKLOG_ALLOW_FALLBACK \in FallbackFlagOn
            THEN /\ inst # <<>>
                 /\ \A i \in 1..Len(inst) : inst[i].kind = SQLITE
                 /\ res[p].kind = "raised" => res[p].err.type = "ConnectError"
            ELSE /\ res[p].kind = "raised"
                 /\ res[p].err.type = "ValueError"
                 /\ res[p].err.msg =
                       "PostgreSQL configuration error: "
                         \o get_postgresql_params(env).err.msg \o FallbackHint
                 /\ inst = <<>> /\ _db = 0 /\ res[p].slot = 0

\* C6 witness: PostgreSQL is selected by WORKLOG_BACKEND, PGHOST is missing,
\* the flag is "0", and get_db() has raised.
C6_Witness ==
    /\ PostgresMisconfigured /\ env.WORKLOG_ALLOW_FALLBACK = "0"
    /\ env.PGHOST = Unset
    /\ res[1].op = "get_db" /\ res[1].kind = "raised"

\* C7: close_db() never raises; it leaves the slot empty and the backend it
\* found without a connection, so the slot never holds a closed backend and
\* no get_db() returns one; close() on a backend that holds no connection
\* changes nothing, and close() is idempotent on every backend.
C7_CloseDb ==
    /\ \A p \in Procs : res[p].op = "close_db" =>
          /\ res[p].kind = "returned"
          /\ res[p].slot # 0 =>
                /\ _db # res[p].slot
                /\ inst[res[p].slot].conn = "none"
                /\ res[p].before.conn = "none" => inst[res[p].slot] = res[p].before
    /\ _db # 0 => ~inst[_db].closed
    /\ \A p \in Procs : GetDbReturned(p) => ~res[p].stale
    /\ \A i \in 1..Len(inst) :
          LET once == BackendClose(inst[i])
          IN  /\ ~once.raised
              /\ BackendClose(once.after) = [after |-> once.after, raised |-> FALSE]

\* C7 witness: a connected backend was closed by close_db(), and a later
\* get_db() constructed, connected and returned a second instance.
C7_Witness ==
    \E p \in Procs :
        /\ GetDbReturned(p) /\ res[p].val = 2 /\ res[p].ready
        /\ inst[1].closed /\ _db = 2

=============================================================================
